---- MODULE Spec2Model ----
(***************************************************************************)
(* Model of behark/First-Strategy:                                         *)
(*   unite-signal-bot/src/signal_engine.py  (SignalEngine)                 *)
(*   unite-signal-bot/src/indicators.py     (Indicators)                   *)
(*   unite-signal-bot/src/risk_manager.py   (RiskManager, targets)         *)
(*   unite-signal-bot/src/main.py           (SignalBot)                    *)
(*   risk_manager.py, strategy.py, order_executor.py, main.py              *)
(*   (portfolio RiskManager, TradingStrategy, OrderExecutor, TradingSystem)*)
(* Floats are modelled as exact rationals <<numerator, denominator>> with  *)
(* a positive denominator, kept in lowest terms; prices and RSI inputs are *)
(* drawn from small sets of integers.                                      *)
(***************************************************************************)
EXTENDS Integers, Sequences, FiniteSets, TLC

VARIABLES
    \* SignalEngine fields
    long_threshold, short_threshold, last_rsi,
    crossed_long_threshold, crossed_short_threshold,
    \* the last evaluate call: its arguments, its result, its parity, and
    \* whether an arming call was seen since the last signal of a direction
    \* (the arming condition held in some call since then), and how many
    \* signals of each direction were returned so far (counted up to MaxCount)
    se_call, se_ret, se_tick, armed_long_since, armed_short_since, se_fired,
    \* Indicators fields
    period_rsi, period_ema, prices, gains, losses, ema_value, has_ema,
    \* the last Indicators call: operation, argument, result; and the prices
    \* accepted since construction or the last buffer reset
    ind_op, ind_arg, ind_ret, hist,
    \* RiskManager (per-trade targets) fields
    profit_pct, stop_pct, tick_size,
    \* the last compute_targets call and its result, and the call before it
    rm_call, rm_ret, rm_prev,
    \* RiskManager (portfolio) fields
    max_position_size, max_risk_per_trade, max_correlated_positions,
    max_drawdown, initial_balance, current_balance, peak_balance,
    positions, correlation_matrix,
    \* the last call on the portfolio RiskManager, its arguments and result
    pf_op, pf_args, pf_ret,
    \* history: the largest balance passed to set_account_balance so far
    \* (None before the first call), and whether should_place_trade has
    \* ever refused
    pf_maxseen, pf_refused,
    \* TradingStrategy fields
    lookback_period, rsi_threshold_low, rsi_threshold_high, historical_data,
    \* the last call on the TradingStrategy and its result
    st_op, st_ret,
    \* history: every bar handed to update_data, per symbol, in arrival order
    st_arrived,
    \* OrderExecutor fields, and the wall clock in milliseconds
    paper_trading, orders, clock,
    \* the last call on the OrderExecutor, its arguments and result
    ex_op, ex_args, ex_ret,
    \* SignalBot fields: the counters, whether a Telegram notifier is
    \* configured, the number of recorded processing times, the timestamp of
    \* the last tick
    tick_count, signal_count, telegram_notifier, processing_times,
    last_tick_time,
    \* the last tick handled by the SignalBot and what was done with it, the
    \* signals handed to the notifier so far, and how many ticks so far were
    \* refused for their price, skipped for want of indicator data, or
    \* taken into the indicators by update
    bot_tick, notified, bot_refused, bot_skipped, bot_accepted,
    \* TradingSystem: where it stands (not started, between cycles, in the
    \* loop of _process_signals), the symbols the loop has still to visit,
    \* the signals of the cycle, the approved trades suspended in
    \* execute_signal, and the recorded trades
    sys_pc, sys_items, sys_signals, sys_inflight, trades,
    \* history: the calls of this cycle on risk manager and order executor,
    \* in the order they were made
    sys_log,
    \* OrderExecutor with concurrent callers: the submit_order calls made so
    \* far (the Order object, where the call stands, the clock value of its
    \* last step, its id), which call's object is stored under each id, and
    \* the calls for whose order cancel_order returned true in paper mode
    submits, owner, cancelled

se_vars == <<long_threshold, short_threshold, last_rsi,
             crossed_long_threshold, crossed_short_threshold,
             se_call, se_ret, se_tick, armed_long_since, armed_short_since,
             se_fired>>

ind_vars == <<period_rsi, period_ema, prices, gains, losses, ema_value,
              has_ema, ind_op, ind_arg, ind_ret, hist>>

rm_vars == <<profit_pct, stop_pct, tick_size, rm_call, rm_ret, rm_prev>>

pf_vars == <<max_position_size, max_risk_per_trade, max_correlated_positions,
             max_drawdown, initial_balance, current_balance, peak_balance,
             positions, correlation_matrix, pf_op, pf_args, pf_ret,
             pf_maxseen, pf_refused>>

st_vars == <<lookback_period, rsi_threshold_low, rsi_threshold_high,
             historical_data, st_op, st_ret, st_arrived>>

ex_vars == <<paper_trading, orders, clock, ex_op, ex_args, ex_ret>>

bot_vars == <<tick_count, signal_count, telegram_notifier, processing_times,
              last_tick_time, bot_tick, notified, bot_refused, bot_skipped,
              bot_accepted>>

sys_vars == <<sys_pc, sys_items, sys_signals, sys_inflight, trades, sys_log>>

race_vars == <<submits, owner, cancelled>>

vars == <<se_vars, ind_vars, rm_vars, pf_vars, st_vars, ex_vars, bot_vars,
          sys_vars, race_vars>>

----------------------------------------------------------------------------
(* Bounds *)

\* prices (and the EMA handed to evaluate) are 1..MaxPrice
MaxPrice == 3
\* at most this many prices are accepted between two buffer resets
MaxUpdates == 5
\* period_rsi is drawn from 1..MaxPeriodRsi, period_ema from 1..MaxPeriodEma
MaxPeriodRsi == 2
MaxPeriodEma == 3
\* signals of one direction are counted up to MaxCount
MaxCount == 2
\* entry prices handed to compute_targets are -1..MaxEntry, and 100
MaxEntry == 3
\* trade quantities proposed to the portfolio RiskManager are 0..MaxQuantity
MaxQuantity == 1
\* bars handed to update_data, over all symbols and calls
MaxBars == 4
\* orders submitted to the OrderExecutor
MaxOrders == 2
\* ticks handed to the SignalBot
MaxTicks == 5
\* milliseconds the wall clock runs while submit_order calls overlap
MaxClock == 2

PriceVals == 1..MaxPrice

\* the default thresholds of SignalEngine.__init__
DefaultLongThreshold == 10
DefaultShortThreshold == 90

\* RSI values handed to SignalEngine.evaluate: below, at and above each
\* threshold, and the middle of the scale
RsiVals == {5, 10, 15, 50, 85, 90, 95}

----------------------------------------------------------------------------
(* Optional values: None is the empty tuple, Some(x) a one-element tuple *)

None == <<>>
Some(x) == <<x>>

----------------------------------------------------------------------------
(* SignalEngine *)

\* the SignalEngine object as a record of its fields
Engine == [long_threshold |-> long_threshold,
           short_threshold |-> short_threshold,
           last_rsi |-> last_rsi,
           crossed_long_threshold |-> crossed_long_threshold,
           crossed_short_threshold |-> crossed_short_threshold]

\* SignalEngine._create_signal
_create_signal(direction, price) ==
    Some([direction |-> direction, entry_price |-> price,
          stop_loss |-> 0, take_profit |-> 0])

\* a bias that counts price = ema as LONG
Bias_GreaterEqual(price, ema) ==
    IF price >= ema THEN "LONG"
    ELSE IF price < ema THEN "SHORT"
    ELSE "NONE"

\* lines 78-84: the bias of evaluate, price against EMA
Bias(price, ema) ==
    IF price > ema THEN "LONG"
    ELSE IF price < ema THEN "SHORT"
    ELSE "NONE"

\* a crossing test that misses an RSI landing exactly on the threshold
CrossesLong_Strict(self, rsi) ==
    self.last_rsi[1] < self.long_threshold /\ rsi > self.long_threshold

\* line 90 / line 99: the RSI crosses the threshold in this call
CrossesLong(self, rsi) ==
    self.last_rsi[1] < self.long_threshold /\ rsi >= self.long_threshold
CrossesShort(self, rsi) ==
    self.last_rsi[1] > self.short_threshold /\ rsi <= self.short_threshold

\* line 92 / line 101: armed earlier, and the RSI has not turned back
ConfirmsLong(self, rsi) ==
    self.crossed_long_threshold /\ self.last_rsi[1] <= rsi
ConfirmsShort(self, rsi) ==
    self.crossed_short_threshold /\ self.last_rsi[1] >= rsi

\* firing that leaves the flag set
FireLong_NoClear(self, price) ==
    [self |-> self, ret |-> _create_signal("LONG", price)]

\* lines 94-95 / 103-104: clear the flag and return the signal; the return
\* comes before the assignment to last_rsi at line 107
FireLong(self, price) ==
    [self |-> [self EXCEPT !.crossed_long_threshold = FALSE],
     ret |-> _create_signal("LONG", price)]
FireShort(self, price) ==
    [self |-> [self EXCEPT !.crossed_short_threshold = FALSE],
     ret |-> _create_signal("SHORT", price)]

\* SignalEngine.evaluate: the engine after the call and the value returned
evaluate(self, price, rsi, ema) ==
    LET bias == Bias(price, ema)
        \* line 107, reached by every path that does not return a signal
        upd == [self EXCEPT !.last_rsi = Some(rsi)]
    IN
    IF self.last_rsi # None /\ bias = "LONG"
    THEN IF CrossesLong(self, rsi)
         THEN [self |-> [upd EXCEPT !.crossed_long_threshold = TRUE], ret |-> None]
         ELSE IF ConfirmsLong(self, rsi)
         THEN FireLong(self, price)
         ELSE [self |-> upd, ret |-> None]
    ELSE IF self.last_rsi # None /\ bias = "SHORT"
    THEN IF CrossesShort(self, rsi)
         THEN [self |-> [upd EXCEPT !.crossed_short_threshold = TRUE], ret |-> None]
         ELSE IF ConfirmsShort(self, rsi)
         THEN FireShort(self, price)
         ELSE [self |-> upd, ret |-> None]
    ELSE [self |-> upd, ret |-> None]

\* the arming condition of a direction, as a property of one call
ArmsLong(lr, lt, price, rsi, ema) ==
    lr # None /\ price > ema /\ lr[1] < lt /\ lt <= rsi
ArmsShort(lr, st, price, rsi, ema) ==
    lr # None /\ price < ema /\ lr[1] > st /\ st >= rsi

IsSignal(r, d) == r # None /\ r[1].direction = d

\* SignalEngine.__init__
SEInit ==
    /\ long_threshold = DefaultLongThreshold
    /\ short_threshold = DefaultShortThreshold
    /\ last_rsi = None
    /\ crossed_long_threshold = FALSE
    /\ crossed_short_threshold = FALSE
    /\ se_call = None
    /\ se_ret = None
    /\ se_tick = 0
    /\ armed_long_since = FALSE
    /\ armed_short_since = FALSE
    /\ se_fired = [d \in {"LONG", "SHORT"} |-> 0]

\* one call engine.evaluate(price, rsi, ema)
Evaluate(price, rsi, ema) ==
    LET r == evaluate(Engine, price, rsi, ema) IN
    /\ last_rsi' = r.self.last_rsi
    /\ crossed_long_threshold' = r.self.crossed_long_threshold
    /\ crossed_short_threshold' = r.self.crossed_short_threshold
    /\ se_ret' = r.ret
    /\ se_call' = Some([price |-> price, rsi |-> rsi, ema |-> ema])
    /\ se_tick' = 1 - se_tick
    /\ armed_long_since' =
          IF IsSignal(r.ret, "LONG") THEN FALSE
          ELSE IF ArmsLong(last_rsi, long_threshold, price, rsi, ema) THEN TRUE
          ELSE armed_long_since
    /\ armed_short_since' =
          IF IsSignal(r.ret, "SHORT") THEN FALSE
          ELSE IF ArmsShort(last_rsi, short_threshold, price, rsi, ema) THEN TRUE
          ELSE armed_short_since
    /\ se_fired' = [d \in {"LONG", "SHORT"} |->
                       IF IsSignal(r.ret, d) /\ se_fired[d] < MaxCount
                       THEN se_fired[d] + 1 ELSE se_fired[d]]
    /\ UNCHANGED <<long_threshold, short_threshold>>

----------------------------------------------------------------------------
(* Exact rational arithmetic, standing for the float arithmetic of the code *)

Abs(x) == IF x < 0 THEN -x ELSE x

RECURSIVE GCD(_, _)
GCD(a, b) == IF b = 0 THEN a ELSE GCD(b, a % b)

\* the rational n/d (d # 0) in lowest terms with a positive denominator
Q(n, d) ==
    LET g == GCD(Abs(n), Abs(d))
        sgn == IF d < 0 THEN -1 ELSE 1
    IN <<(sgn * n) \div g, (sgn * d) \div g>>

R(x) == <<x, 1>>
RAdd(a, b) == Q(a[1] * b[2] + b[1] * a[2], a[2] * b[2])
RSub(a, b) == Q(a[1] * b[2] - b[1] * a[2], a[2] * b[2])
RMul(a, b) == Q(a[1] * b[1], a[2] * b[2])
RDiv(a, b) == Q(a[1] * b[2], a[2] * b[1])
RLe(a, b) == a[1] * b[2] <= b[1] * a[2]
RLt(a, b) == a[1] * b[2] < b[1] * a[2]
RAbs(x) == <<Abs(x[1]), x[2]>>
RMin(a, b) == IF RLt(b, a) THEN b ELSE a

\* Python's sum() over a list of integers
RECURSIVE Sum(_)
Sum(s) == IF s = <<>> THEN 0 ELSE Head(s) + Sum(Tail(s))

Max(a, b) == IF a >= b THEN a ELSE b

\* Python's s[-n:] for n >= 1: the last n elements, all of s when it is shorter
LastN(s, n) ==
    IF Len(s) <= n THEN s ELSE SubSeq(s, Len(s) - n + 1, Len(s))

----------------------------------------------------------------------------
(* Indicators *)

\* what update can be handed: a finite number, NaN, an infinity, or a value
\* that is no number at all
Num(v) == [kind |-> "num", v |-> v]
NaN == [kind |-> "nan", v |-> 0]
Inf == [kind |-> "inf", v |-> 0]
NotANumber == [kind |-> "str", v |-> 0]
PriceInputs == {Num(v) : v \in PriceVals} \cup {NaN, Inf, NotANumber}

\* line 47: not isinstance(price, (int, float)) or isnan(price) or isinf(price)
IsInvalidPrice(price) ==
    \/ price.kind \notin {"num", "nan", "inf"}
    \/ price.kind = "nan"
    \/ price.kind = "inf"

\* results of a call: a value or a ValueError, told apart by its message
Ok(v) == [err |-> "none", val |-> v]
Raise(msg) == [err |-> msg, val |-> None]

\* the Indicators object as a record of its fields
Ind == [period_rsi |-> period_rsi, period_ema |-> period_ema,
        prices |-> prices, gains |-> gains, losses |-> losses,
        ema_value |-> ema_value, has_ema |-> has_ema]

\* Indicators.__init__
NewIndicators(p_rsi, p_ema) ==
    [period_rsi |-> p_rsi, period_ema |-> p_ema,
     prices |-> <<>>, gains |-> <<>>, losses |-> <<>>,
     ema_value |-> R(0), has_ema |-> FALSE]

\* an _update_ema that seeds whenever the buffer is full
_update_ema_Reseed(self, price) ==
    IF Len(self.prices) >= self.period_ema
    THEN [self EXCEPT !.ema_value = RDiv(R(Sum(self.prices)), R(self.period_ema)),
                      !.has_ema = TRUE]
    ELSE self

\* Indicators._update_ema, called after price was appended to self.prices
_update_ema(self, price) ==
    IF Len(self.prices) = self.period_ema
    THEN [self EXCEPT !.ema_value = RDiv(R(Sum(self.prices)), R(self.period_ema)),
                      !.has_ema = TRUE]
    ELSE IF self.has_ema
    THEN LET multiplier == RDiv(R(2), R(self.period_ema + 1)) IN
         [self EXCEPT !.ema_value =
              RAdd(RMul(RSub(R(price), self.ema_value), multiplier),
                   self.ema_value)]
    ELSE self

\* a reset that clears the buffers and keeps the EMA
_reset_buffers_KeepEma(self) ==
    [self EXCEPT !.prices = <<>>, !.gains = <<>>, !.losses = <<>>]

\* Indicators._reset_buffers
_reset_buffers(self) ==
    [self EXCEPT !.prices = <<>>, !.gains = <<>>, !.losses = <<>>,
                 !.ema_value = R(0), !.has_ema = FALSE]

\* lines 53-59: append the price and the gain and loss of its change
AppendPrice(self, v) ==
    LET ps == Append(self.prices, v) IN
    IF Len(ps) > 1
    THEN LET change == ps[Len(ps)] - ps[Len(ps) - 1] IN
         [self EXCEPT !.prices = ps,
                      !.gains = Append(self.gains, Max(0, change)),
                      !.losses = Append(self.losses, Max(0, -change))]
    ELSE [self EXCEPT !.prices = ps]

\* a trim that keeps the oldest prices, prices[:max_period]
TrimBuffers_KeepOldest(self) ==
    LET max_period == Max(self.period_rsi + 1, self.period_ema) IN
    [self EXCEPT
        !.prices = IF Len(self.prices) > max_period
                   THEN SubSeq(self.prices, 1, max_period) ELSE self.prices,
        !.gains = IF Len(self.gains) > self.period_rsi
                  THEN LastN(self.gains, self.period_rsi) ELSE self.gains,
        !.losses = IF Len(self.losses) > self.period_rsi
                   THEN LastN(self.losses, self.period_rsi) ELSE self.losses]

\* a trim that forgets the gains buffer
TrimBuffers_NoGainTrim(self) ==
    LET max_period == Max(self.period_rsi + 1, self.period_ema) IN
    [self EXCEPT
        !.prices = IF Len(self.prices) > max_period
                   THEN LastN(self.prices, max_period) ELSE self.prices,
        !.losses = IF Len(self.losses) > self.period_rsi
                   THEN LastN(self.losses, self.period_rsi) ELSE self.losses]

\* lines 64-71: trim the buffers to the required size
TrimBuffers(self) ==
    LET max_period == Max(self.period_rsi + 1, self.period_ema) IN
    [self EXCEPT
        !.prices = IF Len(self.prices) > max_period
                   THEN LastN(self.prices, max_period) ELSE self.prices,
        !.gains = IF Len(self.gains) > self.period_rsi
                  THEN LastN(self.gains, self.period_rsi) ELSE self.gains,
        !.losses = IF Len(self.losses) > self.period_rsi
                   THEN LastN(self.losses, self.period_rsi) ELSE self.losses]

\* an update that appends the price before validating it
update_AppendFirst(self, price, fault) ==
    IF IsInvalidPrice(price)
    THEN [self |-> [self EXCEPT !.prices = Append(self.prices, price.v)],
          ret |-> Raise("Invalid price value")]
    ELSE IF fault
    THEN [self |-> _reset_buffers(self), ret |-> Raise("Calculation error")]
    ELSE [self |-> TrimBuffers(_update_ema(AppendPrice(self, price.v), price.v)),
          ret |-> Ok(None)]

\* Indicators.update: the object after the call and the call's outcome.
\* fault: an OverflowError or FloatingPointError is raised by the arithmetic
\* inside the try block (lines 51-71).
update(self, price, fault) ==
    IF IsInvalidPrice(price)
    THEN [self |-> self, ret |-> Raise("Invalid price value")]
    ELSE IF fault
    THEN [self |-> _reset_buffers(self), ret |-> Raise("Calculation error")]
    ELSE [self |-> TrimBuffers(_update_ema(AppendPrice(self, price.v), price.v)),
          ret |-> Ok(None)]

\* a guard that asks for one entry more than the period
InsufficientRsi_OffByOne(self) ==
    Len(self.gains) <= self.period_rsi \/ Len(self.losses) <= self.period_rsi

\* line 88: too few gains or losses for an RSI
InsufficientRsi(self) ==
    Len(self.gains) < self.period_rsi \/ Len(self.losses) < self.period_rsi

\* the RSI formula with the sign of the quotient slipped
RsiFromRs_SignSlip(rs) ==
    RAdd(R(100), RDiv(R(100), RAdd(R(1), rs)))

\* the RSI formula without the complement to 100
RsiFromRs_NoComplement(rs) ==
    RDiv(R(100), RAdd(R(1), rs))

\* line 98: rsi = 100 - (100 / (1 + rs))
RsiFromRs(rs) ==
    RSub(R(100), RDiv(R(100), RAdd(R(1), rs)))

\* Indicators.current_rsi
current_rsi(self) ==
    IF InsufficientRsi(self)
    THEN Raise("Insufficient data for RSI calculation")
    ELSE LET avg_gain == RDiv(R(Sum(self.gains)), R(self.period_rsi))
             avg_loss == RDiv(R(Sum(self.losses)), R(self.period_rsi))
         IN
         IF avg_loss = R(0)
         THEN Ok(R(100))
         ELSE Ok(RsiFromRs(RDiv(avg_gain, avg_loss)))

\* Indicators.current_ema
current_ema(self) ==
    IF ~self.has_ema
    THEN Raise("Insufficient data for EMA calculation")
    ELSE Ok(self.ema_value)

\* construction: Indicators(period_rsi, period_ema)
IndInit ==
    /\ \E p_rsi \in 1..MaxPeriodRsi, p_ema \in 1..MaxPeriodEma :
          LET self == NewIndicators(p_rsi, p_ema) IN
          /\ period_rsi = self.period_rsi
          /\ period_ema = self.period_ema
          /\ prices = self.prices
          /\ gains = self.gains
          /\ losses = self.losses
          /\ ema_value = self.ema_value
          /\ has_ema = self.has_ema
    /\ ind_op = "init"
    /\ ind_arg = None
    /\ ind_ret = Ok(None)
    /\ hist = <<>>

SetInd(self) ==
    /\ prices' = self.prices
    /\ gains' = self.gains
    /\ losses' = self.losses
    /\ ema_value' = self.ema_value
    /\ has_ema' = self.has_ema
    /\ UNCHANGED <<period_rsi, period_ema>>

\* one call indicators.update(price)
Update(price, fault) ==
    LET r == update(Ind, price, fault) IN
    /\ ~IsInvalidPrice(price) /\ ~fault => Len(hist) < MaxUpdates
    /\ SetInd(r.self)
    /\ ind_op' = "update"
    /\ ind_arg' = Some(price)
    /\ ind_ret' = r.ret
    /\ hist' = IF r.ret.err = "none" THEN Append(hist, price.v)
               ELSE IF r.ret.err = "Calculation error" THEN <<>>
               ELSE hist

\* one call indicators.current_rsi()
CurrentRsi ==
    /\ ind_op' = "current_rsi"
    /\ ind_arg' = None
    /\ ind_ret' = current_rsi(Ind)
    /\ UNCHANGED <<period_rsi, period_ema, prices, gains, losses, ema_value,
                   has_ema, hist>>

\* one call indicators.current_ema()
CurrentEma ==
    /\ ind_op' = "current_ema"
    /\ ind_arg' = None
    /\ ind_ret' = current_ema(Ind)
    /\ UNCHANGED <<period_rsi, period_ema, prices, gains, losses, ema_value,
                   has_ema, hist>>

----------------------------------------------------------------------------
(* RiskManager of unite-signal-bot: take-profit and stop-loss targets *)

\* percentages and tick sizes a RiskManager is constructed with: the default
\* 0.004, those of the tests (0.01, 0.005; 0.01, 0.05), and coarse ones
PctVals == {Q(1, 250), Q(1, 100), Q(1, 200), Q(1, 4)}
TickVals == {Q(1, 100), Q(1, 20), Q(1, 2), R(1)}
EntryVals == {R(e) : e \in ((-1)..MaxEntry) \cup {100}}
Directions == {"LONG", "SHORT", "NONE"}

\* the RiskManager object as a record of its fields
RM == [profit_pct |-> profit_pct, stop_pct |-> stop_pct,
       tick_size |-> tick_size]

\* rounding that sends a tie to the next integer up
round_HalfUp(x) ==
    LET f == x[1] \div x[2]
        r == x[1] - f * x[2]
    IN IF 2 * r < x[2] THEN f ELSE f + 1

\* Python's round() of a float to an integer: to the nearest, a tie to even
round(x) ==
    LET f == x[1] \div x[2]
        r == x[1] - f * x[2]
    IN IF 2 * r < x[2] THEN f
       ELSE IF 2 * r > x[2] THEN f + 1
       ELSE IF f % 2 = 0 THEN f ELSE f + 1

\* RiskManager._round_to_tick
_round_to_tick(self, price) ==
    RMul(R(round(RDiv(price, self.tick_size))), self.tick_size)

\* an entry-price test that lets 0 through
InvalidEntry_Strict(entry_price) == RLt(entry_price, R(0))

\* line 49: entry_price <= 0
InvalidEntry(entry_price) == RLe(entry_price, R(0))

\* targets whose SHORT stop is put below the entry
RawTargets_ShortStopBelow(self, entry_price, direction) ==
    IF direction = "LONG"
    THEN <<RMul(entry_price, RAdd(R(1), self.profit_pct)),
           RMul(entry_price, RSub(R(1), self.stop_pct))>>
    ELSE <<RMul(entry_price, RSub(R(1), self.profit_pct)),
           RMul(entry_price, RSub(R(1), self.stop_pct))>>

\* lines 52-57: take_profit and stop_loss before rounding, LONG or SHORT
RawTargets(self, entry_price, direction) ==
    IF direction = "LONG"
    THEN <<RMul(entry_price, RAdd(R(1), self.profit_pct)),
           RMul(entry_price, RSub(R(1), self.stop_pct))>>
    ELSE <<RMul(entry_price, RSub(R(1), self.profit_pct)),
           RMul(entry_price, RAdd(R(1), self.stop_pct))>>

\* RiskManager.compute_targets: <<take_profit, stop_loss>> or a ValueError
compute_targets(self, entry_price, direction) ==
    IF InvalidEntry(entry_price)
    THEN Raise("Invalid entry price")
    ELSE IF direction \in {"LONG", "SHORT"}
    THEN LET raw == RawTargets(self, entry_price, direction) IN
         Ok(<<_round_to_tick(self, raw[1]), _round_to_tick(self, raw[2])>>)
    ELSE Raise("Invalid direction")

\* RiskManager.__init__
RMInit ==
    /\ profit_pct \in PctVals
    /\ stop_pct \in PctVals
    /\ tick_size \in TickVals
    /\ rm_call = None
    /\ rm_ret = Ok(None)
    /\ rm_prev = None

\* one call risk_manager.compute_targets(entry_price, direction)
ComputeTargets(entry_price, direction) ==
    /\ rm_call' = Some([entry_price |-> entry_price, direction |-> direction])
    /\ rm_ret' = compute_targets(RM, entry_price, direction)
    /\ rm_prev' = IF rm_call = None THEN None
                  ELSE Some([call |-> rm_call[1], ret |-> rm_ret])
    /\ UNCHANGED <<profit_pct, stop_pct, tick_size>>

----------------------------------------------------------------------------
(* RiskManager of the trading system: account balance, drawdown, sizing *)

Symbols == {"A", "B"}
\* balances handed to set_account_balance: a pair a tenth apart, an empty
\* account and two overdrawn ones
BalanceVals == {R(-2), R(-1), R(0), R(9), R(10)}
PositionVals == {R(1)}
QuantityVals == {R(q) : q \in 0..MaxQuantity}
TradePrices == {R(1), R(2)}
Signals == {"BUY", "SELL"}
\* constructor arguments: the defaults with room for two correlated
\* positions, and a per-trade risk above the position limit
PFConfigs ==
    {[max_position_size |-> Q(1, 10), max_risk_per_trade |-> Q(1, 50),
      max_correlated_positions |-> 2, max_drawdown |-> Q(1, 10)],
     [max_position_size |-> Q(1, 10), max_risk_per_trade |-> Q(1, 2),
      max_correlated_positions |-> 1, max_drawdown |-> Q(1, 10)]}

\* what update_correlation_matrix computes from price_data: the symbols
\* with more than one bar and the correlations of their returns, which are
\* all NaN when no symbol has more than two bars
CorrVals == {Q(7, 10), Q(-9, 10)}
\* the correlation of a series without variance, a float NaN
CorrNaN == <<0, 0>>
CorrelationInputs ==
    {[syms |-> {}, corr |-> <<>>]}
    \cup {[syms |-> {"A"}, corr |-> [p \in {"A"} \X {"A"} |-> R(1)]]}
    \cup {[syms |-> Symbols, corr |-> [p \in Symbols \X Symbols |-> CorrNaN]]}
    \cup {[syms |-> Symbols,
           corr |-> [p \in Symbols \X Symbols |->
                       IF p[1] = p[2] THEN R(1) ELSE c]] : c \in CorrVals}

\* the portfolio RiskManager object as a record of its fields
PF == [max_position_size |-> max_position_size,
       max_risk_per_trade |-> max_risk_per_trade,
       max_correlated_positions |-> max_correlated_positions,
       max_drawdown |-> max_drawdown,
       initial_balance |-> initial_balance,
       current_balance |-> current_balance,
       peak_balance |-> peak_balance,
       positions |-> positions,
       correlation_matrix |-> correlation_matrix]

\* line 42: the test that decides whether this call seeds the balances
SeedsInitial(self) == self.initial_balance = R(0)

\* RiskManager.set_account_balance
set_account_balance(self, balance) ==
    LET seeded == IF SeedsInitial(self)
                  THEN [self EXCEPT !.initial_balance = balance,
                                    !.peak_balance = balance]
                  ELSE self
        current == [seeded EXCEPT !.current_balance = balance]
    IN IF RLt(current.peak_balance, balance)
       THEN [current EXCEPT !.peak_balance = balance]
       ELSE current

\* an update_position that charges the position to the account balance
update_position_Spend(self, symbol, position_size) ==
    [self EXCEPT !.positions =
        [s \in (DOMAIN self.positions) \cup {symbol} |->
            IF s = symbol THEN position_size ELSE self.positions[s]],
                 !.current_balance =
                     RSub(self.current_balance, RAbs(position_size))]

\* RiskManager.update_position
update_position(self, symbol, position_size) ==
    [self EXCEPT !.positions =
        [s \in (DOMAIN self.positions) \cup {symbol} |->
            IF s = symbol THEN position_size ELSE self.positions[s]]]

\* RiskManager.update_correlation_matrix
update_correlation_matrix(self, price_data) ==
    IF price_data.syms # {}
    THEN [self EXCEPT !.correlation_matrix = Some(price_data)]
    ELSE self

\* a drawdown measured from the initial balance
calculate_current_drawdown_FromInitial(self) ==
    IF self.peak_balance = R(0) THEN R(0)
    ELSE RSub(R(1), RDiv(self.current_balance, self.initial_balance))

\* RiskManager.calculate_current_drawdown
calculate_current_drawdown(self) ==
    IF self.peak_balance = R(0) THEN R(0)
    ELSE RSub(R(1), RDiv(self.current_balance, self.peak_balance))

\* a limit that is reached already at equality
check_drawdown_limit_AtLimit(self) ==
    ~RLe(self.max_drawdown, calculate_current_drawdown(self))

\* RiskManager.check_drawdown_limit
check_drawdown_limit(self) ==
    ~RLt(self.max_drawdown, calculate_current_drawdown(self))

\* a threshold that 0.7 itself reaches
HighCorrelation_Inclusive(c) == c # CorrNaN /\ RLe(Q(7, 10), RAbs(c))

\* line 131: abs(correlation) > 0.7, false for NaN
HighCorrelation(c) == c # CorrNaN /\ RLt(Q(7, 10), RAbs(c))

\* RiskManager.adjust_position_size: the object after the call and the size
adjust_position_size(self, symbol, suggested_size, current_price) ==
    LET max_size == RDiv(RMul(self.current_balance, self.max_position_size),
                         current_price)
        adjusted_size == RMin(suggested_size, max_size)
        m == self.correlation_matrix
    IN
    IF m # None /\ symbol \in m[1].syms
    THEN LET correlated_symbols ==
                 {o \in DOMAIN self.positions :
                     /\ o \in m[1].syms
                     /\ HighCorrelation(m[1].corr[<<symbol, o>>])}
         IN [self |-> self,
             ret |-> IF Cardinality(correlated_symbols)
                            >= self.max_correlated_positions
                     THEN RMul(adjusted_size, Q(1, 2))
                     ELSE adjusted_size]
    ELSE [self |-> self, ret |-> adjusted_size]

\* an approval that also books the approved quantity as the position
should_place_trade_Books(self, symbol, signal, quantity, current_price) ==
    IF ~check_drawdown_limit(self)
    THEN [self |-> self, ret |-> <<FALSE, R(0)>>]
    ELSE LET r == adjust_position_size(self, symbol, quantity, current_price)
         IN [self |-> update_position(r.self, symbol, r.ret),
             ret |-> <<TRUE, r.ret>>]

\* RiskManager.should_place_trade: the object after the call and the pair
\* (should_trade, adjusted_quantity)
should_place_trade(self, symbol, signal, quantity, current_price) ==
    IF ~check_drawdown_limit(self)
    THEN [self |-> self, ret |-> <<FALSE, R(0)>>]
    ELSE LET trade_value == RMul(quantity, current_price)
             max_trade_value == RMul(self.current_balance,
                                     self.max_risk_per_trade)
             capped == IF RLt(max_trade_value, trade_value)
                       THEN RDiv(max_trade_value, current_price)
                       ELSE quantity
             r == adjust_position_size(self, symbol, capped, current_price)
         IN [self |-> r.self, ret |-> <<TRUE, r.ret>>]

\* RiskManager.__init__
PFInit ==
    /\ \E c \in PFConfigs :
          /\ max_position_size = c.max_position_size
          /\ max_risk_per_trade = c.max_risk_per_trade
          /\ max_correlated_positions = c.max_correlated_positions
          /\ max_drawdown = c.max_drawdown
    /\ initial_balance = R(0)
    /\ current_balance = R(0)
    /\ peak_balance = R(0)
    /\ positions = <<>>
    /\ correlation_matrix = None
    /\ pf_op = "init" /\ pf_args = <<>> /\ pf_ret = None
    /\ pf_maxseen = None /\ pf_refused = FALSE

\* the assignments a call makes to the object's fields
SetPF(self) ==
    /\ initial_balance' = self.initial_balance
    /\ current_balance' = self.current_balance
    /\ peak_balance' = self.peak_balance
    /\ positions' = self.positions
    /\ correlation_matrix' = self.correlation_matrix
    /\ UNCHANGED <<max_position_size, max_risk_per_trade,
                   max_correlated_positions, max_drawdown>>

\* one call risk_manager.set_account_balance(balance)
SetAccountBalance(balance) ==
    /\ SetPF(set_account_balance(PF, balance))
    /\ pf_op' = "set_account_balance" /\ pf_args' = <<balance>>
    /\ pf_ret' = None
    /\ pf_maxseen' = IF pf_maxseen = None \/ RLt(pf_maxseen[1], balance)
                     THEN Some(balance) ELSE pf_maxseen
    /\ UNCHANGED pf_refused

\* one call risk_manager.update_position(symbol, position_size)
UpdatePosition(symbol, position_size) ==
    /\ SetPF(update_position(PF, symbol, position_size))
    /\ pf_op' = "update_position" /\ pf_args' = <<symbol, position_size>>
    /\ pf_ret' = None
    /\ UNCHANGED <<pf_maxseen, pf_refused>>

\* one call risk_manager.update_correlation_matrix(price_data)
UpdateCorrelationMatrix(price_data) ==
    /\ SetPF(update_correlation_matrix(PF, price_data))
    /\ pf_op' = "update_correlation_matrix" /\ pf_args' = <<price_data.syms>>
    /\ pf_ret' = None
    /\ UNCHANGED <<pf_maxseen, pf_refused>>

\* one call risk_manager.calculate_current_drawdown()
CalculateCurrentDrawdown ==
    /\ SetPF(PF)
    /\ pf_op' = "calculate_current_drawdown" /\ pf_args' = <<>>
    /\ pf_ret' = Some(calculate_current_drawdown(PF))
    /\ UNCHANGED <<pf_maxseen, pf_refused>>

\* one call risk_manager.check_drawdown_limit()
CheckDrawdownLimit ==
    /\ SetPF(PF)
    /\ pf_op' = "check_drawdown_limit" /\ pf_args' = <<>>
    /\ pf_ret' = Some(check_drawdown_limit(PF))
    /\ UNCHANGED <<pf_maxseen, pf_refused>>

\* one call risk_manager.adjust_position_size(symbol, size, price)
AdjustPositionSize(symbol, suggested_size, current_price) ==
    LET r == adjust_position_size(PF, symbol, suggested_size, current_price)
    IN /\ SetPF(r.self)
       /\ pf_op' = "adjust_position_size"
       /\ pf_args' = <<symbol, suggested_size, current_price>>
       /\ pf_ret' = Some(r.ret)
       /\ UNCHANGED <<pf_maxseen, pf_refused>>

\* one call risk_manager.should_place_trade(symbol, signal, quantity, price)
ShouldPlaceTrade(symbol, signal, quantity, current_price) ==
    LET r == should_place_trade(PF, symbol, signal, quantity, current_price)
    IN /\ SetPF(r.self)
       /\ pf_op' = "should_place_trade"
       /\ pf_args' = <<symbol, quantity, current_price>>
       /\ pf_ret' = Some(r.ret)
       /\ pf_refused' = (pf_refused \/ ~r.ret[1])
       /\ UNCHANGED pf_maxseen

----------------------------------------------------------------------------
(* TradingStrategy: retained bars and BUY / SELL / HOLD signals *)

\* closing prices of the bars; a bar is modelled by its close
ClosePrices == {1, 2, 4}
\* constructor arguments (lookback_period, rsi_threshold_low,
\* rsi_threshold_high): the default thresholds, and thresholds that overlap
STConfigs == {<<1, 30, 70>>, <<2, 30, 70>>, <<2, 70, 30>>}
\* the DataFrames handed to update_data: up to n bars
Batches(n) == UNION {[1..k -> ClosePrices] : k \in 0..n}

\* the TradingStrategy object as a record of its fields
ST == [lookback_period |-> lookback_period,
       rsi_threshold_low |-> rsi_threshold_low,
       rsi_threshold_high |-> rsi_threshold_high,
       historical_data |-> historical_data]

\* DataFrame.tail(n) and array[-n:] for n >= 1: the last n rows, or all
Tail_(s, n) == IF Len(s) > n THEN SubSeq(s, Len(s) - n + 1, Len(s)) ELSE s

\* a retention that keeps the oldest bars
Retain_Oldest(self, data) ==
    IF Len(data) > self.lookback_period * 3
    THEN SubSeq(data, 1, self.lookback_period * 3) ELSE data

\* line 40: .tail(self.lookback_period * 3)
Retain(self, data) == Tail_(data, self.lookback_period * 3)

\* TradingStrategy.update_data
update_data(self, symbol, new_data) ==
    IF symbol \notin DOMAIN self.historical_data
    THEN [self EXCEPT !.historical_data =
             [s \in (DOMAIN self.historical_data) \cup {symbol} |->
                 IF s = symbol THEN new_data ELSE self.historical_data[s]]]
    ELSE [self EXCEPT !.historical_data[symbol] =
             Retain(self, self.historical_data[symbol] \o new_data)]

\* the mean of a non-empty sequence of numbers
Mean(s) == Q(Sum(s), Len(s))

\* TradingStrategy.calculate_rsi
calculate_rsi(self, closes) ==
    LET clip_gains == [i \in 1..(Len(closes) - 1) |->
                     Max(0, closes[i + 1] - closes[i])]
        clip_losses == [i \in 1..(Len(closes) - 1) |->
                     Max(0, closes[i] - closes[i + 1])]
        avg_gain == IF Len(clip_gains) > 0
                    THEN Mean(Tail_(clip_gains, self.lookback_period)) ELSE R(0)
        avg_loss == IF Len(clip_losses) > 0
                    THEN Mean(Tail_(clip_losses, self.lookback_period)) ELSE R(0)
    IN IF avg_loss = R(0) THEN R(100)
       ELSE RSub(R(100), RDiv(R(100), RAdd(R(1), RDiv(avg_gain, avg_loss))))

\* np.nan
SmaNaN == <<0, 0>>

\* TradingStrategy.calculate_sma; prices[-0:] is the whole array
calculate_sma(closes, period) ==
    IF Len(closes) < period THEN SmaNaN
    ELSE IF period = 0 THEN Mean(closes)
    ELSE Mean(Tail_(closes, period))

\* float <, false when an operand is NaN
FLt(a, b) == a # SmaNaN /\ b # SmaNaN /\ RLt(a, b)

\* a rule that tests the SELL condition first
Decide_SellFirst(self, rsi, sma_short, sma_long) ==
    IF FLt(R(self.rsi_threshold_high), rsi) \/ FLt(sma_short, sma_long)
    THEN "SELL"
    ELSE IF FLt(rsi, R(self.rsi_threshold_low)) /\ FLt(sma_long, sma_short)
    THEN "BUY"
    ELSE "HOLD"

\* lines 109-114: the decision rule
Decide(self, rsi, sma_short, sma_long) ==
    IF FLt(rsi, R(self.rsi_threshold_low)) /\ FLt(sma_long, sma_short)
    THEN "BUY"
    ELSE IF FLt(R(self.rsi_threshold_high), rsi) \/ FLt(sma_short, sma_long)
    THEN "SELL"
    ELSE "HOLD"

\* TradingStrategy.generate_signals
generate_signals(self) ==
    [symbol \in DOMAIN self.historical_data |->
        LET closes == self.historical_data[symbol] IN
        IF Len(closes) < self.lookback_period THEN "HOLD"
        ELSE Decide(self,
                    calculate_rsi(self, closes),
                    calculate_sma(closes, self.lookback_period \div 2),
                    calculate_sma(closes, self.lookback_period))]

\* TradingStrategy.__init__
STInit ==
    /\ \E c \in STConfigs :
          /\ lookback_period = c[1]
          /\ rsi_threshold_low = c[2]
          /\ rsi_threshold_high = c[3]
    /\ historical_data = <<>>
    /\ st_op = "init" /\ st_ret = <<>>
    /\ st_arrived = [s \in Symbols |-> <<>>]

\* the bars that arrived so far, over all symbols
ArrivedBars == Sum([i \in 1..2 |-> Len(st_arrived[IF i = 1 THEN "A" ELSE "B"])])

\* one call strategy.update_data(symbol, new_data)
UpdateData(symbol, new_data) ==
    /\ ArrivedBars + Len(new_data) <= MaxBars
    /\ historical_data' = update_data(ST, symbol, new_data).historical_data
    /\ st_op' = "update_data" /\ st_ret' = <<>>
    /\ st_arrived' = [st_arrived EXCEPT ![symbol] = @ \o new_data]
    /\ UNCHANGED <<lookback_period, rsi_threshold_low, rsi_threshold_high>>

\* one call strategy.generate_signals()
GenerateSignals ==
    /\ st_op' = "generate_signals"
    /\ st_ret' = generate_signals(ST)
    /\ UNCHANGED <<lookback_period, rsi_threshold_low, rsi_threshold_high,
                   historical_data, st_arrived>>

----------------------------------------------------------------------------
(* OrderExecutor: submitting, filling and cancelling orders *)

OrderType == {"MARKET", "LIMIT", "STOP", "STOP_LIMIT"}
OrderSide == {"BUY", "SELL"}
OrderStatus == {"PENDING", "FILLED", "PARTIALLY_FILLED", "CANCELLED",
                "REJECTED"}

\* Order.__init__
Order(symbol, side, order_type, quantity, price) ==
    [symbol |-> symbol, side |-> side, order_type |-> order_type,
     quantity |-> quantity, price |-> price,
     status |-> "PENDING", filled_quantity |-> R(0),
     average_fill_price |-> None, order_id |-> None]

\* the orders handed to submit_order: market orders with a price, without
\* one and with a price of 0, the other types with a price
OrderInputs ==
    {Order("A", side, "MARKET", R(1), price) :
        side \in OrderSide, price \in {None, Some(R(0)), Some(R(100))}}
    \cup {Order("A", side, t, R(1), Some(R(100))) :
            side \in OrderSide, t \in OrderType \ {"MARKET"}}
\* the signals handed to execute_signal
ExecSignals == {"BUY", "SELL", "HOLD"}

\* the OrderExecutor object as a record of its fields
EX == [paper_trading |-> paper_trading, orders |-> orders]

\* a simulation that marks a market order FILLED and fills nothing
_simulate_execution_NoQuantity(order) ==
    IF order.order_type = "MARKET"
    THEN [order EXCEPT !.status = "FILLED"]
    ELSE order

\* a slippage that favours the trader
slippage_factor_Swapped(side) ==
    IF side = "BUY" THEN Q(999, 1000) ELSE Q(1001, 1000)

\* line 171: 1.001 for BUY, 0.999 for SELL
slippage_factor(side) ==
    IF side = "BUY" THEN Q(1001, 1000) ELSE Q(999, 1000)

\* OrderExecutor._simulate_execution: the order after the simulation
_simulate_execution(order) ==
    IF order.order_type = "MARKET"
    THEN [order EXCEPT
            !.status = "FILLED",
            !.filled_quantity = order.quantity,
            !.average_fill_price =
                IF order.price # None /\ order.price # Some(R(0))
                THEN Some(RMul(order.price[1], slippage_factor(order.side)))
                ELSE None]
    ELSE order

\* OrderExecutor.submit_order at the time now (ms): the object after the
\* call and the returned order id
submit_order(self, order, now) ==
    LET order_id == now
        stored == [order EXCEPT !.order_id = Some(order_id)]
        final == IF self.paper_trading THEN _simulate_execution(stored)
                 ELSE stored
    IN [self |-> [self EXCEPT !.orders =
                     [i \in (DOMAIN self.orders) \cup {order_id} |->
                         IF i = order_id THEN final ELSE self.orders[i]]],
        ret |-> order_id]

\* a test that lets a filled order be cancelled
Cancellable_AlsoFilled(status) ==
    status \in {"PENDING", "PARTIALLY_FILLED", "FILLED"}

\* line 125: the statuses a paper order can be cancelled from
Cancellable(status) == status \in {"PENDING", "PARTIALLY_FILLED"}

\* OrderExecutor.cancel_order: the object after the call and the result
cancel_order(self, order_id) ==
    IF order_id \notin DOMAIN self.orders
    THEN [self |-> self, ret |-> FALSE]
    ELSE IF self.paper_trading
    THEN IF Cancellable(self.orders[order_id].status)
         THEN [self |-> [self EXCEPT !.orders[order_id].status = "CANCELLED"],
               ret |-> TRUE]
         ELSE [self |-> self, ret |-> FALSE]
    ELSE [self |-> self, ret |-> TRUE]

\* a side that ignores the signal
SideOf_AlwaysBuy(signal) == "BUY"

\* line 196: the order side of a signal
SideOf(signal) == IF signal = "BUY" THEN "BUY" ELSE "SELL"

\* OrderExecutor.execute_signal at the time now: the object after the call
\* and the returned order id, or None
execute_signal(self, symbol, signal, quantity, current_price, now) ==
    IF signal \notin {"BUY", "SELL"}
    THEN [self |-> self, ret |-> None]
    ELSE LET order == Order(symbol, SideOf(signal), "MARKET", quantity,
                            Some(current_price))
             r == submit_order(self, order, now)
         IN [self |-> r.self, ret |-> Some(r.ret)]

\* OrderExecutor.__init__
EXInit ==
    /\ paper_trading \in BOOLEAN
    /\ orders = <<>>
    /\ clock = 0
    /\ ex_op = "init" /\ ex_args = <<>> /\ ex_ret = None

\* one call await executor.submit_order(order); the calls of one executor
\* follow each other, and each sleeps 50 ms before it reads the clock
SubmitOrder(order) ==
    LET r == submit_order(EX, order, clock + 1) IN
    /\ clock < MaxOrders
    /\ clock' = clock + 1
    /\ orders' = r.self.orders
    /\ ex_op' = "submit_order" /\ ex_args' = <<order>>
    /\ ex_ret' = Some(r.ret)
    /\ UNCHANGED paper_trading

\* one call executor.cancel_order(order_id)
CancelOrder(order_id) ==
    LET r == cancel_order(EX, order_id) IN
    /\ orders' = r.self.orders
    /\ ex_op' = "cancel_order" /\ ex_args' = <<order_id>>
    /\ ex_ret' = Some(r.ret)
    /\ UNCHANGED <<paper_trading, clock>>

\* one call await executor.execute_signal(symbol, signal, quantity, price)
ExecuteSignal(symbol, signal, quantity, current_price) ==
    LET r == execute_signal(EX, symbol, signal, quantity, current_price,
                            clock + 1)
    IN
    /\ clock < MaxOrders
    /\ clock' = IF r.ret = None THEN clock ELSE clock + 1
    /\ orders' = r.self.orders
    /\ ex_op' = "execute_signal"
    /\ ex_args' = <<symbol, signal, quantity, current_price>>
    /\ ex_ret' = r.ret
    /\ UNCHANGED paper_trading

----------------------------------------------------------------------------
(* OrderExecutor with calls in flight at the same time: submit_order is    *)
(* cut at its two awaits, and the wall clock moves on its own              *)

\* the orders submitted: a market order and a limit order
RaceOrders ==
    {Order("A", "BUY", "MARKET", R(1), Some(R(100))),
     Order("A", "SELL", "LIMIT", R(1), Some(R(100)))}

\* the Order object of the call t: the one stored under the call's id while
\* no later call has put its own order there, else the call's own object
ObjectOf(t) ==
    LET s == submits[t] IN
    IF s.order_id # None /\ owner[s.order_id[1]] = t
    THEN orders[s.order_id[1]]
    ELSE s.order

\* line 95: order_id = f"order_{int(time.time() * 1000)}"
NewOrderId(now) == now

\* the wall clock moves on by a millisecond
Tick ==
    /\ clock < MaxClock
    /\ clock' = clock + 1
    /\ UNCHANGED <<paper_trading, orders, ex_op, ex_args, ex_ret>>
    /\ UNCHANGED race_vars

\* lines 89-92: a call of submit_order starts and sleeps
SubmitBegin(order) ==
    /\ Len(submits) < MaxOrders
    /\ submits' = Append(submits, [order |-> order, pc |-> "sleep",
                                   since |-> clock, order_id |-> None])
    /\ UNCHANGED <<owner, cancelled>>
    /\ UNCHANGED ex_vars

\* lines 95-99: the sleep of the call t is over; the id is taken from the
\* clock and the order stored under it, in place of what was there
SubmitStore(t) ==
    LET s == submits[t]
        id == NewOrderId(clock)
        stored == [s.order EXCEPT !.order_id = Some(id)]
    IN
    /\ s.pc = "sleep"
    /\ clock > s.since
    /\ orders' = [i \in (DOMAIN orders) \cup {id} |->
                     IF i = id THEN stored ELSE orders[i]]
    /\ owner' = [i \in (DOMAIN owner) \cup {id} |->
                     IF i = id THEN t ELSE owner[i]]
    /\ submits' =
          [u \in DOMAIN submits |->
              IF u = t
              THEN [s EXCEPT !.order = stored, !.order_id = Some(id),
                             !.since = clock,
                             !.pc = IF paper_trading THEN "simulate"
                                    ELSE "done"]
              ELSE IF id \in DOMAIN owner /\ owner[id] = u
              THEN [submits[u] EXCEPT !.order = orders[id]]
              ELSE submits[u]]
    /\ ex_op' = "submit_order" /\ ex_args' = <<s.order>>
    /\ ex_ret' = IF paper_trading THEN ex_ret ELSE Some(id)
    /\ UNCHANGED <<paper_trading, clock, cancelled>>

\* lines 100-103: the sleep of _simulate_execution is over; the order of
\* the call t is executed and its id returned
SubmitFinish(t) ==
    LET s == submits[t]
        id == s.order_id[1]
        final == _simulate_execution(ObjectOf(t))
    IN
    /\ s.pc = "simulate"
    /\ clock > s.since
    /\ orders' = IF owner[id] = t THEN [orders EXCEPT ![id] = final]
                 ELSE orders
    /\ submits' = [submits EXCEPT ![t] = [s EXCEPT !.order = final,
                                                   !.pc = "done"]]
    /\ ex_op' = "submit_order" /\ ex_args' = <<s.order>>
    /\ ex_ret' = Some(id)
    /\ UNCHANGED <<paper_trading, clock, owner, cancelled>>

\* one call executor.cancel_order(order_id), made while submit_order calls
\* are in flight
RaceCancel(id) ==
    /\ CancelOrder(id)
    /\ cancelled' = IF paper_trading /\ cancel_order(EX, id).ret
                    THEN cancelled \cup {owner[id]}
                    ELSE cancelled
    /\ UNCHANGED <<submits, owner>>

\* OrderExecutor.__init__, with no call in flight
RaceInit ==
    /\ submits = <<>>
    /\ owner = <<>>
    /\ cancelled = {}

----------------------------------------------------------------------------
(* SignalBot of unite-signal-bot: one tick through indicators, signal     *)
(* engine, risk manager and notifier                                       *)

\* the tick size a RiskManager gets when none is given, 0.0001
DefaultTickSize == Q(1, 10000)

\* what a SignalBot is constructed with: period_rsi, period_ema, profit_pct,
\* stop_pct, and whether both Telegram credentials are given
BotConfigs == {<<1, 2, Q(1, 250), Q(1, 250), TRUE>>,
               <<2, 3, Q(1, 100), Q(1, 200), TRUE>>,
               <<1, 2, Q(1, 250), Q(1, 250), FALSE>>}

\* prices of the ticks: finite prices from 0 up, NaN and a value that is no
\* number; the arithmetic of update can only fail on the largest price
BotPriceVals == 0..MaxPrice
BotTicks ==
    {[price |-> Num(v), fault |-> FALSE] : v \in BotPriceVals}
    \cup {[price |-> NaN, fault |-> FALSE],
          [price |-> NotANumber, fault |-> FALSE],
          [price |-> Num(MaxPrice), fault |-> TRUE]}

\* an evaluate that signals on the crossing itself instead of arming
evaluate_floats_FireOnCross(self, price, rsi, ema) ==
    LET upd == [self EXCEPT !.last_rsi = Some(rsi)]
        lt == R(self.long_threshold)
        st == R(self.short_threshold)
    IN
    IF self.last_rsi # None /\ RLt(ema, R(price))
    THEN IF RLt(self.last_rsi[1], lt) /\ RLe(lt, rsi)
         THEN FireLong(self, price)
         ELSE [self |-> upd, ret |-> None]
    ELSE IF self.last_rsi # None /\ RLt(R(price), ema)
    THEN IF RLt(st, self.last_rsi[1]) /\ RLe(rsi, st)
         THEN FireShort(self, price)
         ELSE [self |-> upd, ret |-> None]
    ELSE [self |-> upd, ret |-> None]

\* SignalEngine.evaluate as the SignalBot calls it: the price is a number,
\* rsi and ema are the floats returned by the indicators, and last_rsi holds
\* the float of the call before
evaluate_floats(self, price, rsi, ema) ==
    LET upd == [self EXCEPT !.last_rsi = Some(rsi)]
        lt == R(self.long_threshold)
        st == R(self.short_threshold)
    IN
    IF self.last_rsi # None /\ RLt(ema, R(price))
    THEN IF RLt(self.last_rsi[1], lt) /\ RLe(lt, rsi)
         THEN [self |-> [upd EXCEPT !.crossed_long_threshold = TRUE], ret |-> None]
         ELSE IF self.crossed_long_threshold /\ RLe(self.last_rsi[1], rsi)
         THEN FireLong(self, price)
         ELSE [self |-> upd, ret |-> None]
    ELSE IF self.last_rsi # None /\ RLt(R(price), ema)
    THEN IF RLt(st, self.last_rsi[1]) /\ RLe(rsi, st)
         THEN [self |-> [upd EXCEPT !.crossed_short_threshold = TRUE], ret |-> None]
         ELSE IF self.crossed_short_threshold /\ RLe(rsi, self.last_rsi[1])
         THEN FireShort(self, price)
         ELSE [self |-> upd, ret |-> None]
    ELSE [self |-> upd, ret |-> None]

\* a tick that found no indicator value and did nothing further
TickSkipped(ind, eng, level) ==
    [ind |-> ind, eng |-> eng, log |-> level, evaluated |-> FALSE,
     signal |-> None]

\* an _on_tick that reports missing indicator data as an error
TickBody_SkipIsFault(ind, eng, price, fault) ==
    LET u == update(ind, price, fault) IN
    IF u.ret.err # "none"
    THEN TickSkipped(u.self, eng, "error")
    ELSE LET rsi == current_rsi(u.self)
             ema == current_ema(u.self)
         IN
         IF rsi.err # "none" \/ ema.err # "none"
         THEN TickSkipped(u.self, eng, "error")
         ELSE LET r == evaluate_floats(eng, price.v, rsi.val, ema.val) IN
              [ind |-> u.self, eng |-> r.self, log |-> "none",
               evaluated |-> TRUE, signal |-> r.ret]

\* lines 106-127 of SignalBot._on_tick, up to the signal: the indicators and
\* the engine after the tick, the level of the message logged for a tick
\* that was given up, whether evaluate was called and what it returned
TickBody(ind, eng, price, fault) ==
    LET u == update(ind, price, fault) IN
    IF u.ret.err # "none"
    THEN \* line 126: any exception of update
         TickSkipped(u.self, eng, "error")
    ELSE LET rsi == current_rsi(u.self)
             ema == current_ema(u.self)
         IN
         IF rsi.err # "none" \/ ema.err # "none"
         THEN \* line 122: the ValueError of current_rsi or current_ema
              TickSkipped(u.self, eng, "debug")
         ELSE LET r == evaluate_floats(eng, price.v, rsi.val, ema.val) IN
              [ind |-> u.self, eng |-> r.self, log |-> "none",
               evaluated |-> TRUE, signal |-> r.ret]

\* a _process_signal that notifies whatever compute_targets did
_process_signal_SendAnyway(rm, notifier, signal) ==
    LET t == compute_targets(rm, R(signal.entry_price), signal.direction) IN
    [targets |-> t,
     sent |-> IF ~notifier THEN None
              ELSE IF t.err # "none" THEN Some(signal)
              ELSE Some([signal EXCEPT !.take_profit = t.val[1],
                                       !.stop_loss = t.val[2]])]

\* SignalBot._process_signal: the outcome of compute_targets, and the signal
\* handed to send_signal, if any
_process_signal(rm, notifier, signal) ==
    LET t == compute_targets(rm, R(signal.entry_price), signal.direction) IN
    [targets |-> t,
     sent |-> IF t.err # "none" \/ ~notifier THEN None
              ELSE Some([signal EXCEPT !.take_profit = t.val[1],
                                       !.stop_loss = t.val[2]])]

\* SignalBot.__init__
BotInit ==
    /\ \E c \in BotConfigs :
          /\ period_rsi = c[1] /\ period_ema = c[2]
          /\ profit_pct = c[3] /\ stop_pct = c[4]
          /\ telegram_notifier = c[5]
    /\ prices = <<>> /\ gains = <<>> /\ losses = <<>>
    /\ ema_value = R(0) /\ has_ema = FALSE
    /\ ind_op = "init" /\ ind_arg = None /\ ind_ret = Ok(None) /\ hist = <<>>
    /\ SEInit
    /\ tick_size = DefaultTickSize
    /\ rm_call = None /\ rm_ret = Ok(None) /\ rm_prev = None
    /\ tick_count = 0
    /\ signal_count = 0
    /\ processing_times = 0
    /\ last_tick_time = None
    /\ bot_tick = None
    /\ notified = <<>>
    /\ bot_refused = 0
    /\ bot_skipped = 0
    /\ bot_accepted = 0

\* one call bot._on_tick(price, timestamp); the timestamps count the ticks.
\* A TelegramAPIError of send_signal is caught at line 165 and changes no
\* more than the log.
OnTick(price, fault) ==
    LET b == TickBody(Ind, Engine, price, fault)
        u == update(Ind, price, fault)
        p == _process_signal(RM, telegram_notifier, b.signal[1])
        timestamp == tick_count + 1
    IN
    /\ tick_count < MaxTicks
    /\ u.ret.err = "none" => Len(hist) < MaxUpdates
    /\ tick_count' = tick_count + 1
    \* Indicators
    /\ SetInd(b.ind)
    /\ ind_op' = IF u.ret.err # "none" THEN "update"
                 ELSE IF current_rsi(u.self).err # "none" THEN "current_rsi"
                 ELSE "current_ema"
    /\ ind_arg' = IF u.ret.err # "none" THEN Some(price) ELSE None
    /\ ind_ret' = IF u.ret.err # "none" THEN u.ret
                  ELSE IF current_rsi(u.self).err # "none"
                  THEN current_rsi(u.self)
                  ELSE current_ema(u.self)
    /\ hist' = IF u.ret.err = "none" THEN Append(hist, price.v)
               ELSE IF u.ret.err = "Calculation error" THEN <<>>
               ELSE hist
    \* SignalEngine; the histories kept for the claims about the engine
    \* alone are not continued here
    /\ last_rsi' = b.eng.last_rsi
    /\ crossed_long_threshold' = b.eng.crossed_long_threshold
    /\ crossed_short_threshold' = b.eng.crossed_short_threshold
    /\ se_call' = IF b.evaluated
                  THEN Some([price |-> price.v,
                             rsi |-> current_rsi(u.self).val,
                             ema |-> current_ema(u.self).val])
                  ELSE se_call
    /\ se_ret' = IF b.evaluated THEN b.signal ELSE se_ret
    /\ UNCHANGED <<long_threshold, short_threshold, se_tick,
                   armed_long_since, armed_short_since, se_fired>>
    \* _process_signal
    /\ signal_count' = IF b.signal # None THEN signal_count + 1
                       ELSE signal_count
    /\ IF b.signal # None
       THEN /\ rm_call' = Some([entry_price |-> R(b.signal[1].entry_price),
                                direction |-> b.signal[1].direction])
            /\ rm_ret' = p.targets
            /\ rm_prev' = IF rm_call = None THEN None
                          ELSE Some([call |-> rm_call[1], ret |-> rm_ret])
            /\ notified' = IF p.sent # None THEN Append(notified, p.sent[1])
                           ELSE notified
       ELSE UNCHANGED <<rm_call, rm_ret, rm_prev, notified>>
    /\ UNCHANGED <<profit_pct, stop_pct, tick_size, telegram_notifier>>
    \* lines 130-139
    /\ processing_times' = IF (tick_count + 1) % 100 = 0
                           THEN IF processing_times + 1 > 100 THEN 100
                                ELSE processing_times + 1
                           ELSE processing_times + 1
    /\ last_tick_time' = Some(timestamp)
    /\ bot_tick' =
          Some([price |-> price, fault |-> fault, log |-> b.log,
                evaluated |-> b.evaluated, signal |-> b.signal,
                targets |-> IF b.signal # None THEN Some(p.targets) ELSE None,
                sent |-> IF b.signal # None THEN p.sent ELSE None])
    /\ bot_refused' = IF IsInvalidPrice(price) THEN bot_refused + 1
                      ELSE bot_refused
    /\ bot_skipped' = IF b.log = "debug" THEN bot_skipped + 1
                      ELSE bot_skipped
    /\ bot_accepted' = IF u.ret.err = "none" THEN bot_accepted + 1
                       ELSE bot_accepted

----------------------------------------------------------------------------
(* TradingSystem: one trading cycle over risk manager and order executor *)

\* the balance the system is started with: the usual case, an empty
\* account and an overdrawn one
SysBalances == {R(10), R(0), R(-1)}
\* what the strategy returns for the symbols of a cycle
SysSignals == [Symbols -> ExecSignals]
\* the last close of each symbol in price_data
SysPrices == [s \in Symbols |-> IF s = "A" THEN R(1) ELSE R(2)]
\* the correlations computed from price_data: none, or strongly opposed
SysCorrelations ==
    {c \in CorrelationInputs :
        c.syms = {} \/ (c.syms = Symbols /\ c.corr[<<"A", "B">>] = Q(-9, 10))}
\* what get_position_size returns: None without enough data, else a size
\* that depends on the volatility of the closes
SuggestedSizes == {None} \cup {Some(q) : q \in QuantityVals}
\* signals.items() visits the symbols in the order of historical_data
SysOrder == <<"A", "B">>

\* an iteration that starts while another is suspended in execute_signal,
\* as the tasks of a gather would
MayStart_Gather == TRUE

\* lines 128-162: the for loop is suspended in the await of line 154 (and of
\* line 162) while an approved trade is in flight, so the next iteration
\* starts only when none is
MayStart == sys_inflight = {}

\* a position value that forgets the direction of the trade
PositionValue_Unsigned(signal, quantity, price) == RMul(quantity, price)

\* lines 182-183: the signed value of the position booked for a trade
PositionValue(signal, quantity, price) ==
    RMul(RMul(quantity, price), IF signal = "BUY" THEN R(1) ELSE R(-1))

\* TradingSystem.__init__
SysInit ==
    /\ sys_pc = "new"
    /\ sys_items = <<>>
    /\ sys_signals = [s \in Symbols |-> "HOLD"]
    /\ sys_inflight = {}
    /\ trades = <<>>
    /\ sys_log = <<>>

SysLoopUnchanged == UNCHANGED <<sys_pc, sys_signals, trades>>

\* TradingSystem.start: the account balance is set
Start(balance) ==
    /\ sys_pc = "new"
    /\ SetAccountBalance(balance)
    /\ sys_pc' = "idle"
    /\ UNCHANGED <<sys_items, sys_signals, sys_inflight, trades, sys_log>>
    /\ UNCHANGED ex_vars

\* TradingSystem.run_trading_cycle up to the first iteration of
\* _process_signals: the correlation matrix is rebuilt and the signals of
\* the strategy are taken
RunTradingCycle(price_data, signals) ==
    /\ sys_pc = "idle"
    /\ UpdateCorrelationMatrix(price_data)
    /\ sys_pc' = "loop"
    /\ sys_signals' = signals
    /\ sys_items' = SysOrder
    /\ sys_log' = <<>>
    /\ UNCHANGED <<sys_inflight, trades>>
    /\ UNCHANGED ex_vars

\* lines 128-159: one iteration of the loop, up to the await of
\* execute_signal when the trade is approved
Iterate(suggested_size) ==
    LET symbol == Head(sys_items)
        signal == sys_signals[symbol]
        current_price == SysPrices[symbol]
        r == should_place_trade(PF, symbol, signal, suggested_size[1],
                                current_price)
        approved == r.ret[1] /\ RLt(R(0), r.ret[2])
    IN
    /\ sys_pc = "loop"
    /\ sys_items # <<>>
    /\ MayStart
    /\ sys_items' = Tail(sys_items)
    /\ IF signal = "HOLD" \/ suggested_size = None
       THEN UNCHANGED <<pf_vars, sys_inflight, sys_log>>
       ELSE /\ approved => clock + Cardinality(sys_inflight) < MaxOrders
            /\ ShouldPlaceTrade(symbol, signal, suggested_size[1],
                                current_price)
            /\ sys_log' = Append(sys_log,
                             <<"should_place_trade", symbol, approved>>)
            /\ sys_inflight' =
                  IF approved
                  THEN sys_inflight \cup
                       {[symbol |-> symbol, signal |-> signal,
                         price |-> current_price, size |-> r.ret[2]]}
                  ELSE sys_inflight
    /\ SysLoopUnchanged
    /\ UNCHANGED ex_vars

\* lines 154-162 and _record_trade: the sleep of submit_order is over, the
\* order is stored, the trade recorded and the position booked
Resume(it) ==
    /\ it \in sys_inflight
    /\ ExecuteSignal(it.symbol, it.signal, it.size, it.price)
    /\ UpdatePosition(it.symbol, PositionValue(it.signal, it.size, it.price))
    /\ trades' = Append(trades, [symbol |-> it.symbol, type |-> it.signal,
                                 price |-> it.price, quantity |-> it.size,
                                 order_id |-> clock + 1])
    /\ sys_inflight' = sys_inflight \ {it}
    /\ sys_log' = sys_log \o <<<<"execute_signal", it.symbol, TRUE>>,
                               <<"update_position", it.symbol, TRUE>>>>
    /\ UNCHANGED <<sys_pc, sys_items, sys_signals>>

\* the loop is over and run_trading_cycle returns
Finish ==
    /\ sys_pc = "loop"
    /\ sys_items = <<>>
    /\ sys_inflight = {}
    /\ sys_pc' = "idle"
    /\ UNCHANGED <<sys_items, sys_signals, sys_inflight, trades, sys_log>>
    /\ UNCHANGED <<pf_vars, ex_vars>>

----------------------------------------------------------------------------
(* Specifications *)

\* an OrderExecutor without calls in flight
RaceIdle ==
    /\ submits = <<>> /\ owner = <<>> /\ cancelled = {}

\* a TradingSystem that is not started
SysIdle ==
    /\ sys_pc = "new" /\ sys_items = <<>>
    /\ sys_signals = [s \in Symbols |-> "HOLD"]
    /\ sys_inflight = {} /\ trades = <<>> /\ sys_log = <<>>

\* a SignalBot that receives no tick
BotIdle ==
    /\ tick_count = 0 /\ signal_count = 0 /\ telegram_notifier = FALSE
    /\ processing_times = 0 /\ last_tick_time = None
    /\ bot_tick = None /\ notified = <<>>
    /\ bot_refused = 0 /\ bot_skipped = 0 /\ bot_accepted = 0

\* an OrderExecutor that nothing calls
EXIdle ==
    /\ paper_trading = TRUE /\ orders = <<>> /\ clock = 0
    /\ ex_op = "init" /\ ex_args = <<>> /\ ex_ret = None

\* a TradingStrategy that nothing calls
STIdle ==
    /\ lookback_period = 20 /\ rsi_threshold_low = 30
    /\ rsi_threshold_high = 70
    /\ historical_data = <<>>
    /\ st_op = "init" /\ st_ret = <<>>
    /\ st_arrived = [s \in Symbols |-> <<>>]

\* a portfolio RiskManager that nothing calls
PFIdle ==
    /\ max_position_size = Q(1, 10) /\ max_risk_per_trade = Q(1, 50)
    /\ max_correlated_positions = 3 /\ max_drawdown = Q(1, 10)
    /\ initial_balance = R(0) /\ current_balance = R(0)
    /\ peak_balance = R(0)
    /\ positions = <<>> /\ correlation_matrix = None
    /\ pf_op = "init" /\ pf_args = <<>> /\ pf_ret = None
    /\ pf_maxseen = None /\ pf_refused = FALSE

\* a RiskManager that nothing calls
RMIdle ==
    /\ profit_pct = Q(1, 250) /\ stop_pct = Q(1, 250) /\ tick_size = Q(1, 100)
    /\ rm_call = None /\ rm_ret = Ok(None) /\ rm_prev = None

\* an Indicators object that nothing calls
IndIdle ==
    /\ period_rsi = 1 /\ period_ema = 1
    /\ prices = <<>> /\ gains = <<>> /\ losses = <<>>
    /\ ema_value = R(0) /\ has_ema = FALSE
    /\ ind_op = "init" /\ ind_arg = None /\ ind_ret = Ok(None) /\ hist = <<>>

\* a SignalEngine that nothing calls
SEIdle ==
    /\ long_threshold = DefaultLongThreshold
    /\ short_threshold = DefaultShortThreshold
    /\ last_rsi = None
    /\ crossed_long_threshold = FALSE /\ crossed_short_threshold = FALSE
    /\ se_call = None /\ se_ret = None /\ se_tick = 0
    /\ armed_long_since = FALSE /\ armed_short_since = FALSE
    /\ se_fired = [d \in {"LONG", "SHORT"} |-> 0]

\* a SignalEngine driven by arbitrary evaluate calls
SEOthers == <<ind_vars, rm_vars, pf_vars, st_vars, ex_vars, bot_vars, sys_vars, race_vars>>
SignalInit == SEInit /\ IndIdle /\ RMIdle /\ PFIdle /\ STIdle /\ EXIdle /\ BotIdle /\ SysIdle /\ RaceIdle
SignalNext ==
    \E price \in PriceVals, rsi \in RsiVals, ema \in PriceVals :
        Evaluate(price, rsi, ema) /\ UNCHANGED SEOthers
SignalSpec == SignalInit /\ [][SignalNext]_vars

\* an Indicators object driven by arbitrary update and query calls
IndOthers == <<se_vars, rm_vars, pf_vars, st_vars, ex_vars, bot_vars, sys_vars, race_vars>>
IndicatorsInit == IndInit /\ SEIdle /\ RMIdle /\ PFIdle /\ STIdle /\ EXIdle /\ BotIdle /\ SysIdle /\ RaceIdle
IndicatorsNext ==
    \/ \E price \in PriceInputs, fault \in BOOLEAN :
          Update(price, fault) /\ UNCHANGED IndOthers
    \/ CurrentRsi /\ UNCHANGED IndOthers
    \/ CurrentEma /\ UNCHANGED IndOthers
IndicatorsSpec == IndicatorsInit /\ [][IndicatorsNext]_vars

\* a RiskManager driven by arbitrary compute_targets calls
RMOthers == <<se_vars, ind_vars, pf_vars, st_vars, ex_vars, bot_vars, sys_vars, race_vars>>
TargetsInit == RMInit /\ SEIdle /\ IndIdle /\ PFIdle /\ STIdle /\ EXIdle /\ BotIdle /\ SysIdle /\ RaceIdle
TargetsNext ==
    \E entry_price \in EntryVals, direction \in Directions :
        ComputeTargets(entry_price, direction) /\ UNCHANGED RMOthers
TargetsSpec == TargetsInit /\ [][TargetsNext]_vars

\* a portfolio RiskManager driven by arbitrary calls of its methods
PFOthers == <<se_vars, ind_vars, rm_vars, st_vars, ex_vars, bot_vars, sys_vars, race_vars>>
PortfolioInit == PFInit /\ SEIdle /\ IndIdle /\ RMIdle /\ STIdle /\ EXIdle /\ BotIdle /\ SysIdle /\ RaceIdle
PortfolioNext ==
    \/ \E balance \in BalanceVals :
          SetAccountBalance(balance) /\ UNCHANGED PFOthers
    \/ \E symbol \in Symbols, position_size \in PositionVals :
          UpdatePosition(symbol, position_size) /\ UNCHANGED PFOthers
    \/ \E price_data \in CorrelationInputs :
          UpdateCorrelationMatrix(price_data) /\ UNCHANGED PFOthers
    \/ CalculateCurrentDrawdown /\ UNCHANGED PFOthers
    \/ CheckDrawdownLimit /\ UNCHANGED PFOthers
    \/ \E symbol \in Symbols, size \in QuantityVals, price \in TradePrices :
          AdjustPositionSize(symbol, size, price) /\ UNCHANGED PFOthers
    \/ \E symbol \in Symbols, signal \in Signals, quantity \in QuantityVals,
          price \in TradePrices :
          ShouldPlaceTrade(symbol, signal, quantity, price)
          /\ UNCHANGED PFOthers
PortfolioSpec == PortfolioInit /\ [][PortfolioNext]_vars

\* a TradingStrategy driven by arbitrary update_data and generate_signals
\* calls
STOthers == <<se_vars, ind_vars, rm_vars, pf_vars, ex_vars, bot_vars, sys_vars, race_vars>>
StrategyInit == STInit /\ SEIdle /\ IndIdle /\ RMIdle /\ PFIdle /\ EXIdle /\ BotIdle /\ SysIdle /\ RaceIdle
StrategyNext ==
    \/ \E symbol \in Symbols, new_data \in Batches(MaxBars) :
          UpdateData(symbol, new_data) /\ UNCHANGED STOthers
    \/ GenerateSignals /\ UNCHANGED STOthers
StrategySpec == StrategyInit /\ [][StrategyNext]_vars

\* an OrderExecutor driven by arbitrary calls, one after the other
EXOthers == <<se_vars, ind_vars, rm_vars, pf_vars, st_vars, bot_vars, sys_vars, race_vars>>
ExecutorInit == EXInit /\ SEIdle /\ IndIdle /\ RMIdle /\ PFIdle /\ STIdle /\ BotIdle /\ SysIdle /\ RaceIdle
ExecutorNext ==
    \/ \E order \in OrderInputs : SubmitOrder(order) /\ UNCHANGED EXOthers
    \/ \E order_id \in 1..(MaxOrders + 1) :
          CancelOrder(order_id) /\ UNCHANGED EXOthers
    \/ \E signal \in ExecSignals :
          ExecuteSignal("A", signal, R(2), R(100)) /\ UNCHANGED EXOthers
ExecutorSpec == ExecutorInit /\ [][ExecutorNext]_vars

\* a SignalBot driven by the ticks of its market data feed, one at a time
BotOthers == <<pf_vars, st_vars, ex_vars, sys_vars, race_vars>>
BotSpecInit == BotInit /\ PFIdle /\ STIdle /\ EXIdle /\ SysIdle /\ RaceIdle
BotNext ==
    \E t \in BotTicks : OnTick(t.price, t.fault) /\ UNCHANGED BotOthers
BotSpec == BotSpecInit /\ [][BotNext]_vars

\* a TradingSystem started once and running its trading cycles one after
\* the other, as the loop of main does
SystemOthers == <<se_vars, ind_vars, rm_vars, st_vars, bot_vars, race_vars>>
SystemInit == PFInit /\ EXInit /\ SysInit /\ SEIdle /\ IndIdle /\ RMIdle /\ STIdle /\ BotIdle /\ RaceIdle
SystemNext ==
    \/ \E balance \in SysBalances : Start(balance) /\ UNCHANGED SystemOthers
    \/ \E price_data \in SysCorrelations, signals \in SysSignals :
          RunTradingCycle(price_data, signals) /\ UNCHANGED SystemOthers
    \/ \E suggested_size \in SuggestedSizes :
          Iterate(suggested_size) /\ UNCHANGED SystemOthers
    \/ \E it \in sys_inflight : Resume(it) /\ UNCHANGED SystemOthers
    \/ Finish /\ UNCHANGED SystemOthers
SystemSpec == SystemInit /\ [][SystemNext]_vars

\* an OrderExecutor whose submit_order and cancel_order calls are made by
\* several tasks of one event loop
RaceOthers == <<se_vars, ind_vars, rm_vars, pf_vars, st_vars, bot_vars, sys_vars>>
RaceSpecInit == EXInit /\ RaceInit /\ SEIdle /\ IndIdle /\ RMIdle /\ PFIdle /\ STIdle /\ BotIdle /\ SysIdle
RaceNext ==
    \/ Tick /\ UNCHANGED RaceOthers
    \/ \E order \in RaceOrders : SubmitBegin(order) /\ UNCHANGED RaceOthers
    \/ \E t \in DOMAIN submits : SubmitStore(t) /\ UNCHANGED RaceOthers
    \/ \E t \in DOMAIN submits : SubmitFinish(t) /\ UNCHANGED RaceOthers
    \/ \E id \in 1..MaxClock : RaceCancel(id) /\ UNCHANGED RaceOthers
RaceSpec == RaceSpecInit /\ [][RaceNext]_vars

----------------------------------------------------------------------------
(* Claims: SignalEngine (checked under SignalSpec) *)

\* the arguments of the call that led to the state after a step
Call == se_call'[1]

\* C1: SignalEngine never fires twice for one arming event. A call that
\* returns a LONG (SHORT) signal leaves crossed_long (crossed_short) false,
\* and the arming condition of that direction held in some call since the
\* previous signal of the direction (or since construction).
C1_NoDoubleFire ==
    [][ /\ IsSignal(se_ret', "LONG") =>
              armed_long_since /\ ~crossed_long_threshold'
        /\ IsSignal(se_ret', "SHORT") =>
              armed_short_since /\ ~crossed_short_threshold' ]_vars

\* C1 witness: a second LONG signal has just been returned
C1_Witness ==
    /\ IsSignal(se_ret, "LONG") /\ se_fired["LONG"] >= 2
    /\ ~crossed_long_threshold /\ ~armed_long_since

\* C2: after every evaluate call, signal or not, last_rsi is the rsi argument
\* of that call.
C2_LastRsiIsArgument ==
    se_call # None => last_rsi = Some(se_call[1].rsi)

\* C3: firing is gated by the bias of the call. LONG is returned only with
\* price > ema, SHORT only with price < ema, nothing with price = ema; a call
\* without LONG bias leaves crossed_long unchanged and a call without SHORT
\* bias leaves crossed_short unchanged.
C3_BiasGate ==
    [][ /\ IsSignal(se_ret', "LONG") => Call.price > Call.ema
        /\ IsSignal(se_ret', "SHORT") => Call.price < Call.ema
        /\ Call.price = Call.ema => se_ret' = None
        /\ Call.price <= Call.ema =>
              crossed_long_threshold' = crossed_long_threshold
        /\ Call.price >= Call.ema =>
              crossed_short_threshold' = crossed_short_threshold ]_vars

\* C3 witness: a call with SHORT bias and a confirming RSI (not below the
\* previous one) met an armed LONG flag, left it armed and returned nothing
C3_Witness ==
    /\ se_call # None /\ se_call[1].price < se_call[1].ema
    /\ crossed_long_threshold /\ se_ret = None
    /\ se_call[1].rsi > DefaultLongThreshold
    /\ last_rsi = Some(se_call[1].rsi)
    /\ armed_long_since

\* C4: the two-phase rule, for every pre-state and input. Without last_rsi
\* nothing is armed or returned. With last_rsi and price > ema: a crossing
\* last_rsi < long_threshold <= rsi arms and returns nothing; otherwise an
\* armed flag with rsi >= last_rsi returns LONG at the call's price and
\* clears the flag; otherwise no flag changes. SHORT is the mirror image.
C4_TwoPhaseRule ==
    [][ LET lr == last_rsi
            keep == /\ crossed_long_threshold' = crossed_long_threshold
                    /\ crossed_short_threshold' = crossed_short_threshold
        IN
        /\ lr = None => keep /\ se_ret' = None
        /\ lr # None /\ Call.price > Call.ema =>
              IF lr[1] < long_threshold /\ long_threshold <= Call.rsi
              THEN crossed_long_threshold' /\ se_ret' = None
              ELSE IF crossed_long_threshold /\ Call.rsi >= lr[1]
              THEN /\ IsSignal(se_ret', "LONG")
                   /\ se_ret'[1].entry_price = Call.price
                   /\ ~crossed_long_threshold'
              ELSE keep /\ se_ret' = None
        /\ lr # None /\ Call.price < Call.ema =>
              IF lr[1] > short_threshold /\ short_threshold >= Call.rsi
              THEN crossed_short_threshold' /\ se_ret' = None
              ELSE IF crossed_short_threshold /\ Call.rsi <= lr[1]
              THEN /\ IsSignal(se_ret', "SHORT")
                   /\ se_ret'[1].entry_price = Call.price
                   /\ ~crossed_short_threshold'
              ELSE keep /\ se_ret' = None ]_vars

\* C4 witness: the call after an arming call returned SHORT at its price
C4_Witness ==
    /\ IsSignal(se_ret, "SHORT")
    /\ se_ret[1].entry_price = se_call[1].price
    /\ se_call[1].price < se_call[1].ema
    /\ ~crossed_short_threshold

----------------------------------------------------------------------------
(* Claims: Indicators (checked under IndicatorsSpec) *)

\* the gains and the losses of all price changes of a price sequence
GainsOf(h) == [i \in 1..(Len(h) - 1) |-> Max(0, h[i + 1] - h[i])]
LossesOf(h) == [i \in 1..(Len(h) - 1) |-> Max(0, h[i] - h[i + 1])]

\* the window of the RSI: the last period_rsi changes of the accepted prices
WindowGains == LastN(GainsOf(hist), period_rsi)
WindowLosses == LastN(LossesOf(hist), period_rsi)

MaxPeriod == Max(period_rsi + 1, period_ema)

\* C5: after any sequence of update calls, accepted or rejected, gains and
\* losses hold at most period_rsi entries and prices at most
\* max(period_rsi + 1, period_ema), and they hold the most recent entries.
C5_BuffersBounded ==
    /\ Len(gains) <= period_rsi
    /\ Len(losses) <= period_rsi
    /\ Len(prices) <= MaxPeriod
    /\ prices = LastN(hist, MaxPeriod)
    /\ gains = WindowGains
    /\ losses = WindowLosses

\* C5 witness: an update has pushed entries out of all three buffers
C5_Witness ==
    /\ ind_op = "update" /\ ind_ret.err = "none"
    /\ Len(hist) > MaxPeriod + 1
    /\ Len(prices) = MaxPeriod /\ Len(gains) = period_rsi
    /\ hist[1] # hist[Len(hist)]

\* the object that results from feeding the prices h to a new Indicators
RECURSIVE Replay(_, _, _)
Replay(h, p_rsi, p_ema) ==
    IF h = <<>> THEN NewIndicators(p_rsi, p_ema)
    ELSE update(Replay(SubSeq(h, 1, Len(h) - 1), p_rsi, p_ema),
                Num(h[Len(h)]), FALSE).self

\* C6: update with a non-numeric, NaN or infinite price fails with an
\* invalid-input error and leaves prices, gains, losses, ema_value and has_ema
\* as they were; afterwards the object is the one that the accepted prices
\* alone produce, so later calls behave as if the rejected call was not made.
C6_RejectedUpdateNoEffect ==
    /\ [][ ind_op' = "update" /\ IsInvalidPrice(ind_arg'[1]) =>
              /\ ind_ret'.err = "Invalid price value"
              /\ UNCHANGED <<prices, gains, losses, ema_value, has_ema>> ]_vars
    /\ [](Ind = Replay(hist, period_rsi, period_ema))

\* C6 witness: a NaN was rejected by an object that holds prices and an EMA
C6_Witness ==
    /\ ind_op = "update" /\ ind_arg = Some(NaN)
    /\ ind_ret.err = "Invalid price value"
    /\ Len(prices) >= 2 /\ has_ema

\* C7: current_rsi fails with insufficient-data exactly while fewer than
\* period_rsi + 1 prices were accepted since construction or the last reset.
C7_RsiAvailability ==
    ind_op = "current_rsi" =>
        /\ ind_ret.err \in {"none", "Insufficient data for RSI calculation"}
        /\ ind_ret.err = "Insufficient data for RSI calculation"
              <=> Len(hist) < period_rsi + 1

\* C7 witness: current_rsi succeeds with exactly period_rsi + 1 prices
C7_Witness ==
    /\ ind_op = "current_rsi" /\ ind_ret.err = "none"
    /\ Len(hist) = period_rsi + 1

\* the EMA of the first n prices of h, n >= p_ema: the mean of the first
\* p_ema prices, then one smoothing step per later price
RECURSIVE EmaOf(_, _, _)
EmaOf(h, p_ema, n) ==
    IF n = p_ema
    THEN Q(Sum(SubSeq(h, 1, p_ema)), p_ema)
    ELSE LET e == EmaOf(h, p_ema, n - 1) IN
         RAdd(e, RMul(RSub(R(h[n]), e), Q(2, p_ema + 1)))

\* C8: for accepted prices p1..pn, current_ema fails with insufficient-data
\* while n < period_ema, is the mean of p1..p_period_ema when n = period_ema,
\* and beyond that is the seed smoothed once per later price; the seed is
\* never recomputed, for any period_rsi.
C8_EmaValue ==
    ind_op = "current_ema" =>
        IF Len(hist) < period_ema
        THEN ind_ret.err = "Insufficient data for EMA calculation"
        ELSE ind_ret = Ok(EmaOf(hist, period_ema, Len(hist)))

\* C8 witness: an EMA read after the price buffer was trimmed to exactly
\* period_ema entries and further prices, different from the seed, came in
C8_Witness ==
    /\ ind_op = "current_ema" /\ ind_ret.err = "none"
    /\ period_ema >= period_rsi + 1
    /\ Len(hist) >= period_ema + 2
    /\ hist[Len(hist)] # hist[1]
    /\ ind_ret.val # Q(Sum(prices), period_ema)

\* C9: whenever current_rsi returns a value, it lies in [0, 100].
C9_RsiRange ==
    ind_op = "current_rsi" /\ ind_ret.err = "none" =>
        RLe(R(0), ind_ret.val) /\ RLe(ind_ret.val, R(100))

\* C9 witness: an RSI strictly inside the range
C9_Witness ==
    /\ ind_op = "current_rsi" /\ ind_ret.err = "none"
    /\ RLt(R(0), ind_ret.val) /\ RLt(ind_ret.val, R(100))

\* C10 (as claimed): current_rsi returns 100 if and only if the average loss
\* over the window is 0 and the average gain is greater than 0.
C10_HundredIffGainOnly ==
    ind_op = "current_rsi" /\ ind_ret.err = "none" =>
        (ind_ret.val = R(100)
            <=> Sum(WindowLosses) = 0 /\ Sum(WindowGains) > 0)

\* C10 (amended): current_rsi returns 100 if and only if the average loss
\* over the window is 0, whatever the average gain: a window of unchanged
\* prices gives 100 too.
C10_HundredIffNoLoss ==
    ind_op = "current_rsi" /\ ind_ret.err = "none" =>
        (ind_ret.val = R(100) <=> Sum(WindowLosses) = 0)

\* C10 witness: a window of unchanged prices, and current_rsi returned 100
C10_Witness ==
    /\ ind_op = "current_rsi" /\ ind_ret = Ok(R(100))
    /\ Len(hist) >= period_rsi + 1
    /\ Sum(WindowGains) = 0 /\ Sum(WindowLosses) = 0

\* C11: current_rsi is computed from exactly the last period_rsi price
\* changes: 100 when the window's losses sum to 0, and otherwise
\* 100 - 100/(1 + sum(gains)/sum(losses)); older changes have no influence.
\* With period_rsi = 2, three rising prices give 100 and a step back down by
\* the same amount gives 50.
C11_RsiFromWindow ==
    ind_op = "current_rsi" /\ ind_ret.err = "none" =>
        LET g == Sum(WindowGains)
            l == Sum(WindowLosses)
        IN
        /\ l = 0 => ind_ret.val = R(100)
        /\ l # 0 => ind_ret.val = RSub(R(100), RDiv(R(100), RAdd(R(1), Q(g, l))))
        /\ period_rsi = 2 /\ hist = <<1, 2, 3>> => ind_ret.val = R(100)
        /\ period_rsi = 2 /\ hist = <<1, 2, 3, 2>> => ind_ret.val = R(50)

\* C11 witness: the scenario's last query, after the oldest gain left the
\* window
C11_Witness ==
    /\ ind_op = "current_rsi" /\ ind_ret = Ok(R(50))
    /\ period_rsi = 2 /\ hist = <<1, 2, 3, 2>>
    /\ Sum(GainsOf(hist)) # Sum(WindowGains)

----------------------------------------------------------------------------
(* Claims: RiskManager targets (checked under TargetsSpec) *)

\* C12: compute_targets fails with an invalid-input error and returns no
\* targets whenever entry_price <= 0 or the direction is neither LONG nor
\* SHORT; for entry_price > 0 and LONG or SHORT it returns a pair.
C12_TargetsValidation ==
    rm_call # None =>
        LET c == rm_call[1]
            valid == c.entry_price[1] > 0 /\ c.direction \in {"LONG", "SHORT"}
        IN
        /\ ~valid => /\ rm_ret.err \in {"Invalid entry price", "Invalid direction"}
                     /\ rm_ret.val = None
        /\ valid => rm_ret.err = "none" /\ Len(rm_ret.val) = 2

\* C12 witness: an entry price of 0 was refused for a LONG
C12_Witness ==
    /\ rm_call = Some([entry_price |-> R(0), direction |-> "LONG"])
    /\ rm_ret.err = "Invalid entry price"

\* t is the multiple of tick nearest to v, the even multiple on a tie
IsTickRounded(v, t, tick) ==
    LET k == RDiv(t, tick)
        dist2 == RMul(R(2), RAbs(RSub(v, t)))
    IN /\ k[2] = 1
       /\ RLe(dist2, tick)
       /\ dist2 = tick => k[1] % 2 = 0

\* the call's targets before rounding, as the claim states them
C13_Raw ==
    LET e == rm_call[1].entry_price IN
    IF rm_call[1].direction = "LONG"
    THEN <<RMul(e, RAdd(R(1), profit_pct)), RMul(e, RSub(R(1), stop_pct))>>
    ELSE <<RMul(e, RSub(R(1), profit_pct)), RMul(e, RAdd(R(1), stop_pct))>>

\* C13: for valid input the targets are entry*(1+profit_pct) and
\* entry*(1-stop_pct) for LONG, entry*(1-profit_pct) and entry*(1+stop_pct)
\* for SHORT, each rounded to the nearest multiple of tick_size, a tie going
\* to the even multiple; every target is an integer multiple of tick_size.
C13_TargetsRounded ==
    rm_call # None /\ rm_ret.err = "none" =>
        /\ IsTickRounded(C13_Raw[1], rm_ret.val[1], tick_size)
        /\ IsTickRounded(C13_Raw[2], rm_ret.val[2], tick_size)
        /\ (/\ profit_pct = Q(1, 100) /\ stop_pct = Q(1, 200)
            /\ tick_size = Q(1, 100)
            /\ rm_call[1] = [entry_price |-> R(100), direction |-> "LONG"])
           => rm_ret.val = <<R(101), Q(199, 2)>>

\* C13 witness: a take_profit that lay exactly between two ticks
C13_Witness ==
    /\ rm_call # None /\ rm_ret.err = "none"
    /\ RMul(R(2), RAbs(RSub(C13_Raw[1], rm_ret.val[1]))) = tick_size

\* C14: with the same entry price and the same percentage as profit_pct and
\* stop_pct, the LONG take_profit is the SHORT stop_loss and the LONG
\* stop_loss is the SHORT take_profit.
C14_ReflectionSymmetry ==
    (/\ rm_prev # None /\ rm_call # None
     /\ profit_pct = stop_pct
     /\ rm_prev[1].call.entry_price = rm_call[1].entry_price
     /\ rm_prev[1].call.direction = "LONG" /\ rm_call[1].direction = "SHORT"
     /\ rm_prev[1].ret.err = "none")
    => /\ rm_ret.err = "none"
       /\ rm_prev[1].ret.val[1] = rm_ret.val[2]
       /\ rm_prev[1].ret.val[2] = rm_ret.val[1]

\* C14 witness: a LONG call followed by a SHORT call at the same entry, with
\* equal percentages and targets that differ from each other
C14_Witness ==
    /\ rm_prev # None /\ rm_call # None /\ profit_pct = stop_pct
    /\ rm_prev[1].call.entry_price = rm_call[1].entry_price
    /\ rm_prev[1].call.direction = "LONG" /\ rm_call[1].direction = "SHORT"
    /\ rm_ret.err = "none" /\ rm_ret.val[1] # rm_ret.val[2]

----------------------------------------------------------------------------
(* Claims: portfolio RiskManager (checked under PortfolioSpec) *)

\* the drawdown as the claims define it: 1 - current_balance/peak_balance,
\* and 0 when peak_balance is 0
Drawdown ==
    IF peak_balance = R(0) THEN R(0)
    ELSE RSub(R(1), RDiv(current_balance, peak_balance))

\* C15: across any sequence of set_account_balance calls peak_balance never
\* decreases, and after each call it is the maximum of all balances passed
\* so far.
C15_PeakTracksMaximum ==
    /\ [](pf_maxseen # None => peak_balance = pf_maxseen[1])
    /\ [][pf_op' = "set_account_balance" /\ pf_maxseen # None
            => RLe(peak_balance, peak_balance')]_vars

\* C16: only the first set_account_balance call seeds initial_balance: the
\* first call sets it to its balance and no later call changes it, whatever
\* the balances; every call sets current_balance to its argument.
C16_InitialSeededOnce ==
    [][pf_op' = "set_account_balance" =>
          /\ current_balance' = pf_args'[1]
          /\ pf_maxseen = None => initial_balance' = pf_args'[1]
          /\ pf_maxseen # None => initial_balance' = initial_balance]_vars

\* C17: check_drawdown_limit returns false if and only if the drawdown is
\* strictly greater than max_drawdown, so a drawdown equal to max_drawdown
\* still allows trading; balances 10 then 9 give a drawdown of 0.1.
C17_DrawdownLimit ==
    /\ pf_op = "check_drawdown_limit" =>
          /\ pf_ret[1] = FALSE <=> RLt(max_drawdown, Drawdown)
          /\ Drawdown = max_drawdown => pf_ret[1] = TRUE
    /\ pf_op = "calculate_current_drawdown" =>
          /\ pf_ret[1] = Drawdown
          /\ peak_balance = R(10) /\ current_balance = R(9)
                => pf_ret[1] = Q(1, 10)

\* C17 witness: the limit was checked, and trading allowed, with the
\* drawdown exactly at max_drawdown
C17_Witness ==
    /\ pf_op = "check_drawdown_limit" /\ pf_ret = Some(TRUE)
    /\ peak_balance = R(10) /\ current_balance = R(9)
    /\ Drawdown = max_drawdown

\* C18: whenever should_place_trade returns (true, q) for a quantity >= 0 at
\* a price > 0, q*price is at most current_balance * max_risk_per_trade and
\* 0 <= q <= the proposed quantity.
C18_ApprovedSizeBounded ==
    (/\ pf_op = "should_place_trade" /\ pf_ret[1][1] = TRUE
     /\ RLe(R(0), pf_args[2]) /\ RLt(R(0), pf_args[3]))
    => LET q == pf_ret[1][2] IN
       /\ RLe(RMul(q, pf_args[3]), RMul(current_balance, max_risk_per_trade))
       /\ RLe(R(0), q)
       /\ RLe(q, pf_args[2])

\* C19: should_place_trade returns (false, 0) exactly when the drawdown
\* exceeds max_drawdown at the time of the call, whatever it returned
\* before: once the drawdown is back within the limit the next call
\* returns true with a quantity.
C19_RefusalIffBreached ==
    pf_op = "should_place_trade" =>
        /\ pf_ret[1] = <<FALSE, R(0)>> <=> RLt(max_drawdown, Drawdown)
        /\ pf_ret[1][1] = TRUE <=> ~RLt(max_drawdown, Drawdown)

\* C19 witness: a trade approved with a positive quantity after an earlier
\* refusal
C19_Witness ==
    /\ pf_op = "should_place_trade" /\ pf_refused
    /\ pf_ret[1][1] = TRUE /\ RLt(R(0), pf_ret[1][2])

\* C20: should_place_trade and adjust_position_size leave positions, the
\* three balances and the correlation matrix as they were, approved or
\* refused; positions change only in update_position.
C20_SizingIsReadOnly ==
    [][/\ pf_op' \in {"should_place_trade", "adjust_position_size"}
          => UNCHANGED <<positions, current_balance, peak_balance,
                         initial_balance, correlation_matrix>>
       /\ positions' # positions => pf_op' = "update_position"]_vars

\* C20 witness: a trade approved, after an earlier refusal, for a symbol
\* without a position while another position and a matrix exist
C20_Witness ==
    /\ pf_op = "should_place_trade" /\ pf_ret[1][1] = TRUE /\ pf_refused
    /\ positions # <<>> /\ pf_args[1] \notin DOMAIN positions
    /\ correlation_matrix # None

\* the symbols with a recorded position whose correlation with sym is
\* above 0.7 in absolute value, read from the matrix m
C26_Correlated(m, sym) ==
    {o \in DOMAIN positions :
        /\ o \in m.syms
        /\ m.corr[<<sym, o>>] # CorrNaN
        /\ RLt(Q(7, 10), RAbs(m.corr[<<sym, o>>]))}

\* C26: adjust_position_size returns min(suggested_size, current_balance *
\* max_position_size / price), halved if and only if a correlation matrix
\* exists, contains the symbol, and at least max_correlated_positions of the
\* symbols recorded in positions have an absolute correlation with the
\* symbol above 0.7; otherwise the capped size is returned as it is.
C26_AdjustedSize ==
    pf_op = "adjust_position_size" =>
        LET sym == pf_args[1]
            cap == RDiv(RMul(current_balance, max_position_size), pf_args[3])
            capped == IF RLt(cap, pf_args[2]) THEN cap ELSE pf_args[2]
            halve == /\ correlation_matrix # None
                     /\ sym \in correlation_matrix[1].syms
                     /\ Cardinality(C26_Correlated(correlation_matrix[1], sym))
                           >= max_correlated_positions
        IN /\ halve => pf_ret[1] = RDiv(capped, R(2))
           /\ ~halve => pf_ret[1] = capped

\* C26 witness: a positive size was halved because of two correlated
\* positions, one of them correlated negatively
C26_Witness ==
    /\ pf_op = "adjust_position_size" /\ max_correlated_positions = 2
    /\ correlation_matrix # None
    /\ pf_args[1] \in correlation_matrix[1].syms
    /\ Cardinality(C26_Correlated(correlation_matrix[1], pf_args[1])) = 2
    /\ RLt(R(0), pf_ret[1]) /\ RLt(pf_ret[1], pf_args[2])
    /\ \E o \in DOMAIN positions :
          RLt(correlation_matrix[1].corr[<<pf_args[1], o>>], R(0))

----------------------------------------------------------------------------
(* Claims: TradingStrategy (checked under StrategySpec) *)

\* C21: after any sequence of update_data calls, the first call for a symbol
\* included, each symbol retains at most lookback_period * 3 bars, and they
\* are the most recent bars in arrival order.
C21_RetentionBounded ==
    \A s \in DOMAIN historical_data :
        /\ Len(historical_data[s]) <= lookback_period * 3
        /\ historical_data[s] =
              SubSeq(st_arrived[s],
                     Len(st_arrived[s]) - Len(historical_data[s]) + 1,
                     Len(st_arrived[s]))

\* the three indicators generate_signals reads for a symbol
C27_Rsi(s) == calculate_rsi(ST, historical_data[s])
C27_SmaShort(s) == calculate_sma(historical_data[s], lookback_period \div 2)
C27_SmaLong(s) == calculate_sma(historical_data[s], lookback_period)
C27_BuyCondition(s) ==
    /\ RLt(C27_Rsi(s), R(rsi_threshold_low))
    /\ RLt(C27_SmaLong(s), C27_SmaShort(s))
C27_SellCondition(s) ==
    \/ RLt(R(rsi_threshold_high), C27_Rsi(s))
    \/ RLt(C27_SmaShort(s), C27_SmaLong(s))

\* C27: generate_signals gives each symbol that has data exactly one of BUY,
\* SELL, HOLD: HOLD with fewer than lookback_period bars; otherwise BUY if
\* rsi < rsi_threshold_low and sma_short > sma_long, else SELL if
\* rsi > rsi_threshold_high or sma_short < sma_long, else HOLD; so BUY wins
\* over SELL, and HOLD with enough bars means sma_short >= sma_long,
\* rsi <= rsi_threshold_high and no BUY condition.
C27_DecisionRule ==
    st_op = "generate_signals" =>
        /\ DOMAIN st_ret = DOMAIN historical_data
        /\ \A s \in DOMAIN historical_data :
              /\ st_ret[s] \in {"BUY", "SELL", "HOLD"}
              /\ Len(historical_data[s]) < lookback_period
                    => st_ret[s] = "HOLD"
              /\ Len(historical_data[s]) >= lookback_period =>
                    /\ st_ret[s] = "BUY" <=> C27_BuyCondition(s)
                    /\ st_ret[s] = "SELL" <=>
                          ~C27_BuyCondition(s) /\ C27_SellCondition(s)
                    /\ st_ret[s] = "HOLD" =>
                          /\ RLe(C27_SmaLong(s), C27_SmaShort(s))
                          /\ RLe(C27_Rsi(s), R(rsi_threshold_high))
                          /\ ~C27_BuyCondition(s)

\* C27 witness: one symbol got BUY although its SELL condition held too,
\* the other got HOLD for lack of bars
C27_Witness ==
    /\ st_op = "generate_signals" /\ DOMAIN st_ret = Symbols
    /\ \E s \in Symbols :
          /\ Len(historical_data[s]) >= lookback_period
          /\ st_ret[s] = "BUY" /\ C27_SellCondition(s)
    /\ \E t \in Symbols :
          /\ Len(historical_data[t]) < lookback_period
          /\ st_ret[t] = "HOLD"

----------------------------------------------------------------------------
(* Claims: OrderExecutor (checked under ExecutorSpec) *)

\* the order stored under the id that the last submit_order call returned
C22_Stored == orders[ex_ret[1]]

\* the stored order is the submitted one: same symbol, side, type, quantity
\* and price, and it carries the returned id
C22_IsSubmitted ==
    /\ ex_ret[1] \in DOMAIN orders
    /\ C22_Stored.order_id = ex_ret
    /\ \A f \in {"symbol", "side", "order_type", "quantity", "price"} :
          C22_Stored[f] = ex_args[1][f]

\* status and filled quantity as the claim states them
C22_StatusByType ==
    /\ C22_Stored.status = "FILLED" <=> C22_Stored.order_type = "MARKET"
    /\ C22_Stored.order_type = "MARKET" =>
          C22_Stored.filled_quantity = C22_Stored.quantity
    /\ C22_Stored.order_type # "MARKET" =>
          /\ C22_Stored.status = "PENDING"
          /\ C22_Stored.filled_quantity = R(0)

\* C22 as stated: in paper mode, when submit_order returns, the order is
\* stored under the returned id, FILLED if and only if it is a MARKET order;
\* a filled order has filled_quantity = quantity and average_fill_price =
\* price * 1.001 for BUY and price * 0.999 for SELL; any other order is
\* PENDING with filled_quantity 0.
C22_FillPriceAlways ==
    ex_op = "submit_order" /\ paper_trading =>
        /\ C22_IsSubmitted
        /\ C22_StatusByType
        /\ C22_Stored.order_type = "MARKET" =>
              /\ C22_Stored.price # None
              /\ C22_Stored.average_fill_price =
                    Some(RMul(C22_Stored.price[1],
                              IF C22_Stored.side = "BUY"
                              THEN Q(1001, 1000) ELSE Q(999, 1000)))

\* the order has a price, and the price is not 0
C22_Priced == C22_Stored.price # None /\ C22_Stored.price # Some(R(0))

\* C22, amended: as stated, except that the fill price is price * 1.001 or
\* price * 0.999 only for an order that has a price other than 0; a market
\* order without a price, or with price 0, is filled with no
\* average_fill_price.
C22_FillPriceWhenPriced ==
    ex_op = "submit_order" /\ paper_trading =>
        /\ C22_IsSubmitted
        /\ C22_StatusByType
        /\ C22_Stored.order_type = "MARKET" /\ C22_Priced =>
              C22_Stored.average_fill_price =
                 Some(RMul(C22_Stored.price[1],
                           IF C22_Stored.side = "BUY"
                           THEN Q(1001, 1000) ELSE Q(999, 1000)))
        /\ C22_Stored.order_type = "MARKET" /\ ~C22_Priced =>
              C22_Stored.average_fill_price = None
        /\ (/\ C22_Stored.order_type = "MARKET" /\ C22_Stored.side = "BUY"
            /\ C22_Stored.price = Some(R(100)))
           => C22_Stored.average_fill_price = Some(Q(1001, 10))

\* C22 witness: a market order without a price was submitted in paper mode
\* after another order, and is filled without a fill price
C22_Witness ==
    /\ ex_op = "submit_order" /\ paper_trading /\ clock = 2
    /\ C22_Stored.order_type = "MARKET" /\ C22_Stored.price = None
    /\ C22_Stored.status = "FILLED"
    /\ C22_Stored.average_fill_price = None

\* an executor in paper mode that holds one order with the given status
C23_Holding(status) ==
    [paper_trading |-> TRUE,
     orders |-> (1 :> [Order("A", "BUY", "LIMIT", R(1), Some(R(100)))
                         EXCEPT !.status = status])]

\* C23: cancel_order returns false and changes nothing for an unknown id; in
\* paper mode it returns true exactly when the order is PENDING or
\* PARTIALLY_FILLED, and then the status becomes CANCELLED; for a FILLED,
\* CANCELLED or REJECTED order it returns false and the status stays. No
\* order becomes CANCELLED from a status other than PENDING or
\* PARTIALLY_FILLED.
C23_CancelRule ==
    /\ [][ex_op' = "cancel_order" =>
            LET id == ex_args'[1] IN
            /\ id \notin DOMAIN orders =>
                  ex_ret' = Some(FALSE) /\ orders' = orders
            /\ id \in DOMAIN orders /\ paper_trading =>
                  /\ ex_ret' = Some(orders[id].status
                                     \in {"PENDING", "PARTIALLY_FILLED"})
                  /\ ex_ret' = Some(TRUE) =>
                        orders' = [orders EXCEPT ![id].status = "CANCELLED"]
                  /\ ex_ret' = Some(FALSE) => orders' = orders]_vars
    /\ [][\A id \in DOMAIN orders' :
            (/\ orders'[id].status = "CANCELLED"
             /\ (id \notin DOMAIN orders \/ orders[id].status # "CANCELLED"))
            => /\ id \in DOMAIN orders
               /\ orders[id].status \in {"PENDING", "PARTIALLY_FILLED"}]_vars
    /\ [](\A status \in OrderStatus :
            LET r == cancel_order(C23_Holding(status), 1) IN
            /\ r.ret = (status \in {"PENDING", "PARTIALLY_FILLED"})
            /\ r.self.orders[1].status =
                  IF r.ret THEN "CANCELLED" ELSE status
            /\ cancel_order(C23_Holding(status), 2) =
                  [self |-> C23_Holding(status), ret |-> FALSE])

\* C23 witness: a cancel was refused for a filled order while another order
\* stands cancelled
C23_Witness ==
    /\ ex_op = "cancel_order" /\ paper_trading /\ ex_ret = Some(FALSE)
    /\ ex_args[1] \in DOMAIN orders
    /\ orders[ex_args[1]].status = "FILLED"
    /\ \E id \in DOMAIN orders : orders[id].status = "CANCELLED"

\* C24: execute_signal with a signal other than BUY or SELL returns no order
\* id and leaves the stored orders as they were; with BUY or SELL it stores
\* one new MARKET order with the side of the signal and the given symbol,
\* quantity and price, and returns the id it is stored under.
C24_ExecuteSignal ==
    [][ex_op' = "execute_signal" =>
          LET signal == ex_args'[2] IN
          /\ signal \notin {"BUY", "SELL"} =>
                ex_ret' = None /\ orders' = orders
          /\ signal \in {"BUY", "SELL"} =>
                /\ ex_ret' # None
                /\ ex_ret'[1] \notin DOMAIN orders
                /\ DOMAIN orders' = (DOMAIN orders) \cup {ex_ret'[1]}
                /\ \A id \in DOMAIN orders : orders'[id] = orders[id]
                /\ orders'[ex_ret'[1]].order_type = "MARKET"
                /\ orders'[ex_ret'[1]].side = signal
                /\ orders'[ex_ret'[1]].symbol = ex_args'[1]
                /\ orders'[ex_ret'[1]].quantity = ex_args'[3]
                /\ orders'[ex_ret'[1]].price = Some(ex_args'[4])
                /\ orders'[ex_ret'[1]].order_id = ex_ret']_vars

\* C24 witness: a SELL signal was executed after another order and its
\* market order is stored under the returned id
C24_Witness ==
    /\ ex_op = "execute_signal" /\ ex_args[2] = "SELL" /\ ex_ret # None
    /\ Cardinality(DOMAIN orders) = 2
    /\ orders[ex_ret[1]].side = "SELL"
    /\ orders[ex_ret[1]].order_type = "MARKET"

----------------------------------------------------------------------------
(* Claims: SignalBot (checked under BotSpec) *)

\* the indicator state and the signal-engine state
C28_IndState == <<prices, gains, losses, ema_value, has_ema>>
C28_EngineState == <<last_rsi, crossed_long_threshold,
                     crossed_short_threshold>>
\* no signal was processed in the step
C28_NoSignal ==
    /\ bot_tick'[1].signal = None
    /\ UNCHANGED <<signal_count, notified, rm_call, rm_ret>>
\* the indicators, after the step, cannot give an RSI or cannot give an EMA
C28_NotReady ==
    current_rsi(Ind').err # "none" \/ current_ema(Ind').err # "none"

\* C28: every tick is counted. A tick whose price the indicators accept but
\* after which current_rsi or current_ema is not yet available is logged at
\* debug level and not as an error, evaluate is not called, the signal
\* engine is unchanged and no signal is processed. A tick with an invalid
\* price produces no signal and changes neither the indicators nor the
\* signal engine. Whatever happened on earlier ticks, a valid price is
\* handed to the indicators and, once RSI and EMA are available, to
\* evaluate.
C28_SkippedTicks ==
    [][LET t == bot_tick'[1]
           accepted == ~IsInvalidPrice(t.price) /\ ~t.fault
       IN
       /\ tick_count' = tick_count + 1
       /\ accepted /\ C28_NotReady =>
             /\ t.log = "debug"
             /\ ~t.evaluated
             /\ se_call' = se_call
             /\ UNCHANGED C28_EngineState
             /\ C28_NoSignal
       /\ IsInvalidPrice(t.price) =>
             /\ ~t.evaluated
             /\ C28_NoSignal
             /\ UNCHANGED C28_IndState
             /\ UNCHANGED C28_EngineState
       /\ accepted => hist' = Append(hist, t.price.v)
       /\ accepted /\ ~C28_NotReady =>
             /\ t.evaluated
             /\ se_call' = Some([price |-> t.price.v,
                                 rsi |-> current_rsi(Ind').val,
                                 ema |-> current_ema(Ind').val])
      ]_vars

\* a tick was refused for its price, another was skipped for want of
\* indicator data, and the last tick was evaluated and gave a signal
C28_Witness ==
    /\ bot_refused > 0
    /\ bot_skipped > 0
    /\ bot_tick # None
    /\ bot_tick[1].evaluated
    /\ bot_tick[1].signal # None

\* the signal s carries the targets computed for its entry price
C29_Targeted(s) ==
    LET t == compute_targets(RM, R(s.entry_price), s.direction) IN
    /\ t.err = "none"
    /\ s.take_profit = t.val[1]
    /\ s.stop_loss = t.val[2]

\* C29: a signal returned by evaluate has stop_loss 0 and take_profit 0; a
\* signal is handed to the notifier only in a step where compute_targets
\* succeeded on it, and carries the take-profit and the stop-loss
\* compute_targets returned; when compute_targets fails nothing is sent.
C29_SentAfterTargets ==
    /\ [](bot_tick # None /\ bot_tick[1].signal # None =>
             /\ bot_tick[1].signal[1].stop_loss = 0
             /\ bot_tick[1].signal[1].take_profit = 0
             /\ se_ret = bot_tick[1].signal)
    /\ [](\A i \in 1..Len(notified) : C29_Targeted(notified[i]))
    /\ [][LET t == bot_tick'[1] IN
          /\ notified' # notified =>
                /\ t.signal # None
                /\ rm_ret'.err = "none"
                /\ notified' =
                      Append(notified,
                             [t.signal[1] EXCEPT
                                 !.take_profit = rm_ret'.val[1],
                                 !.stop_loss = rm_ret'.val[2]])
          /\ t.signal # None /\ t.targets[1].err # "none" =>
                notified' = notified
         ]_vars

\* a signal with its targets has been sent, and the targets are off the
\* entry price
C29_Witness ==
    /\ Len(notified) > 0
    /\ bot_tick # None
    /\ bot_tick[1].sent = Some(notified[Len(notified)])
    /\ RLt(R(0), notified[Len(notified)].take_profit)
    /\ notified[Len(notified)].take_profit
          # notified[Len(notified)].stop_loss

----------------------------------------------------------------------------
(* Claims: TradingSystem (checked under SystemSpec) *)

\* entry i of the cycle's log is a sizing decision that approved a trade
C30_Approval(i) ==
    sys_log[i][1] = "should_place_trade" /\ sys_log[i][3]

\* C30: within one run of _process_signals at most one approved trade is in
\* flight; a call of should_place_trade that approves a trade for a symbol
\* is followed, before any other call on the risk manager, by the
\* execute_signal and the update_position of that symbol, after which the
\* symbol's position is booked; and should_place_trade is called only when
\* no approved trade is waiting for its order or its position update.
C30_Serialized ==
    /\ [](Cardinality(sys_inflight) <= 1)
    /\ [](\A i \in 1..Len(sys_log) :
             C30_Approval(i) =>
                /\ i + 1 <= Len(sys_log) =>
                      sys_log[i + 1] = <<"execute_signal", sys_log[i][2], TRUE>>
                /\ i + 2 <= Len(sys_log) =>
                      /\ sys_log[i + 2]
                            = <<"update_position", sys_log[i][2], TRUE>>
                      /\ sys_log[i][2] \in DOMAIN positions
                /\ i + 1 > Len(sys_log) =>
                      \E it \in sys_inflight : it.symbol = sys_log[i][2])
    /\ [][pf_op' = "should_place_trade" /\ Len(sys_log') = Len(sys_log) + 1
             => sys_inflight = {}]_vars

\* both symbols were traded in one cycle: the second sizing decision came
\* after the first symbol's order and position update
C30_Witness ==
    /\ Len(sys_log) = 6
    /\ C30_Approval(1) /\ sys_log[1][2] = "A"
    /\ C30_Approval(4) /\ sys_log[4][2] = "B"
    /\ DOMAIN positions = {"A", "B"}
    /\ Len(trades) = 2

\* the step calls update_position
C31_UpdatesPosition ==
    /\ Len(sys_log') = Len(sys_log) + 2
    /\ sys_log'[Len(sys_log')][1] = "update_position"

\* the step calls should_place_trade without a trade coming of it
C31_NotApproved ==
    /\ Len(sys_log') = Len(sys_log) + 1
    /\ sys_log'[Len(sys_log')][1] = "should_place_trade"
    /\ ~sys_log'[Len(sys_log')][3]

\* C31: update_position is called only in a step that follows, for the same
\* symbol, a should_place_trade that approved a quantity above 0, and in
\* which execute_signal returned the id of an order of that symbol; the
\* value booked is quantity * price for BUY and its negative for SELL; a
\* trade is recorded exactly in the steps that update a position; a call of
\* should_place_trade that approves nothing, or a quantity of 0, leaves
\* positions and trades as they are.
C31_PositionAfterExecution ==
    [][/\ C31_UpdatesPosition =>
             LET symbol == sys_log'[Len(sys_log')][2]
                 t == trades'[Len(trades')]
                 v == RMul(t.quantity, t.price)
             IN
             /\ pf_op = "should_place_trade"
             /\ pf_args[1] = symbol
             /\ pf_ret[1][1]
             /\ RLt(R(0), pf_ret[1][2])
             /\ ex_ret' # None
             /\ ex_ret'[1] \in DOMAIN orders'
             /\ ex_ret'[1] \notin DOMAIN orders
             /\ orders'[ex_ret'[1]].symbol = symbol
             /\ t.symbol = symbol
             /\ t.quantity = pf_ret[1][2]
             /\ t.type = sys_signals[symbol]
             /\ t.type \in {"BUY", "SELL"}
             /\ t.order_id = ex_ret'[1]
             /\ positions'[symbol] =
                   IF t.type = "BUY" THEN v ELSE RSub(R(0), v)
       /\ (trades' # trades) = C31_UpdatesPosition
       /\ C31_UpdatesPosition => trades' = Append(trades, trades'[Len(trades')])
       /\ positions' # positions => C31_UpdatesPosition
       /\ C31_NotApproved =>
             /\ UNCHANGED <<positions, trades, orders>>
             /\ sys_inflight' = sys_inflight
      ]_vars

\* a SELL was executed and booked as a negative position, after a sizing
\* call in the same cycle that approved nothing
C31_Witness ==
    /\ Len(trades) > 0
    /\ trades[Len(trades)].type = "SELL"
    /\ trades[Len(trades)].symbol = "B"
    /\ "B" \in DOMAIN positions
    /\ RLt(positions["B"], R(0))
    /\ Len(sys_log) = 4
    /\ sys_log[1] = <<"should_place_trade", "A", FALSE>>
    /\ "A" \notin DOMAIN positions

\* C36: once start has set the balance, no step of a trading cycle changes
\* initial_balance, current_balance or peak_balance: all three stay at the
\* balance start was given, the drawdown is 0, check_drawdown_limit holds
\* and should_place_trade has never refused a trade.
C36_BalanceFrame ==
    /\ [](sys_pc # "new" =>
             /\ pf_maxseen # None
             /\ initial_balance = pf_maxseen[1]
             /\ current_balance = pf_maxseen[1]
             /\ peak_balance = pf_maxseen[1]
             /\ calculate_current_drawdown(PF) = R(0)
             /\ check_drawdown_limit(PF)
             /\ ~pf_refused)
    /\ [][sys_pc # "new" =>
             UNCHANGED <<initial_balance, current_balance, peak_balance>>]_vars

\* two trades were executed and booked, one in each of two cycles, and the
\* balances are still the one the system was started with
C36_Witness ==
    /\ Len(trades) = 2
    /\ trades[1].symbol = trades[2].symbol
    /\ sys_pc = "idle"
    /\ pf_maxseen = Some(R(10))
    /\ current_balance = R(10)
    /\ peak_balance = R(10)

\* C35: after any sequence of set_account_balance calls current_balance is
\* at most peak_balance, calculate_current_drawdown is not negative, and it
\* is at most 1 when the balances are not negative.
C35_DrawdownRange ==
    pf_maxseen # None =>
       /\ RLe(current_balance, peak_balance)
       /\ RLe(R(0), calculate_current_drawdown(PF))
       /\ RLe(R(0), current_balance) /\ RLe(R(0), peak_balance) =>
             RLe(calculate_current_drawdown(PF), R(1))

\* C34: with positive percentages, a positive entry price and a positive
\* tick size the returned targets lie strictly on their side of the entry:
\* stop_loss < entry_price < take_profit for LONG, and
\* take_profit < entry_price < stop_loss for SHORT.
C34_TargetsSideOfEntry ==
    (/\ rm_call # None /\ rm_ret.err = "none"
     /\ RLt(R(0), profit_pct) /\ RLt(R(0), stop_pct) /\ RLt(R(0), tick_size))
    => LET e == rm_call[1].entry_price
           take_profit == rm_ret.val[1]
           stop_loss == rm_ret.val[2]
       IN IF rm_call[1].direction = "LONG"
          THEN RLt(stop_loss, e) /\ RLt(e, take_profit)
          ELSE RLt(take_profit, e) /\ RLt(e, stop_loss)

\* C37 as stated: every FILLED order has filled_quantity equal to its
\* quantity and an average_fill_price that is not None.
C37_FilledHasPrice ==
    \A i \in DOMAIN orders :
       orders[i].status = "FILLED" =>
          /\ orders[i].filled_quantity = orders[i].quantity
          /\ orders[i].average_fill_price # None

\* C37, amended: every FILLED order has filled_quantity equal to its
\* quantity; its average_fill_price is not None exactly when the order has
\* a price other than 0.
C37_FilledHasPriceWhenPriced ==
    \A i \in DOMAIN orders :
       orders[i].status = "FILLED" =>
          /\ orders[i].filled_quantity = orders[i].quantity
          /\ (orders[i].average_fill_price # None)
                = (orders[i].price # None /\ orders[i].price # Some(R(0)))

\* two filled orders, one without a price and one with price 0, both
\* without a fill price
C37_Witness ==
    /\ \E i \in DOMAIN orders :
          /\ orders[i].status = "FILLED" /\ orders[i].price = None
          /\ orders[i].average_fill_price = None
    /\ \E i \in DOMAIN orders :
          /\ orders[i].status = "FILLED" /\ orders[i].price = Some(R(0))
          /\ orders[i].average_fill_price = None
          /\ orders[i].filled_quantity = orders[i].quantity

----------------------------------------------------------------------------
(* Claims: OrderExecutor with concurrent callers (checked under RaceSpec) *)

\* C32: in paper mode an order for which cancel_order has returned true is
\* CANCELLED and stays so, also when the cancel_order call came between the
\* storing of the order and the end of its simulated execution; it is never
\* FILLED afterwards.
C32_CancelledStays ==
    paper_trading =>
       \A t \in cancelled : ObjectOf(t).status = "CANCELLED"

\* the submit_order calls that have stored their order
C33_Stored == {t \in DOMAIN submits : submits[t].order_id # None}

\* C33: the ids of the submit_order calls that have stored their order are
\* pairwise distinct, also when the calls overlap and read the same clock
\* millisecond; every stored order is still held under its id, and there
\* are as many stored orders as calls that have stored one.
C33_DistinctIds ==
    /\ \A t, u \in C33_Stored :
          t # u => submits[t].order_id # submits[u].order_id
    /\ \A t \in C33_Stored : owner[submits[t].order_id[1]] = t
    /\ Cardinality(DOMAIN orders) = Cardinality(C33_Stored)

----------------------------------------------------------------------------
(* Claims: SignalBot warm-up (checked under BotSpec) *)

\* W = max(period_rsi + 1, period_ema)
C38_W == IF period_rsi + 1 > period_ema THEN period_rsi + 1 ELSE period_ema

\* the tick armed the engine for a direction it was not armed for
C38_Arms ==
    \/ ~crossed_long_threshold /\ crossed_long_threshold'
    \/ ~crossed_short_threshold /\ crossed_short_threshold'

\* C38: counting the ticks whose price update took into the indicators,
\* evaluate is not called before tick W, and is called at tick W when no
\* numeric fault emptied the indicators before; the first call of evaluate
\* only records last_rsi; the engine is not armed before tick W + 1; no
\* signal is produced before tick W + 2, whatever the prices.
C38_NoEarlySignal ==
    [][LET t == bot_tick'[1] IN
       /\ t.evaluated => bot_accepted' >= C38_W
       /\ bot_accepted' = bot_accepted + 1 /\ bot_accepted' >= C38_W
             /\ Len(hist') = bot_accepted'
          => t.evaluated
       /\ t.evaluated /\ last_rsi = None =>
             /\ last_rsi' # None
             /\ ~C38_Arms
             /\ t.signal = None
       /\ C38_Arms => bot_accepted' >= C38_W + 1
       /\ t.signal # None => bot_accepted' >= C38_W + 2
       /\ bot_accepted' <= C38_W + 1 =>
             /\ t.signal = None
             /\ signal_count' = 0
             /\ notified' = <<>>]_vars

\* a signal at the earliest tick, W + 2, after a refused tick that did not
\* count
C38_Witness ==
    /\ bot_tick # None
    /\ bot_tick[1].signal # None
    /\ bot_accepted = C38_W + 2
    /\ bot_refused > 0
    /\ signal_count = 1

----------------------------------------------------------------------------
(* Claims: Indicators after a numeric fault (checked under IndicatorsSpec) *)

\* C25: an update that hits a numeric fault after validation reports an
\* invalid-input error and leaves prices, gains and losses empty, ema_value
\* 0 and has_ema false; from then on current_rsi and current_ema fail with
\* insufficient data until period_rsi + 1 and period_ema prices have been
\* accepted since the fault, as for a new object.
C25_FaultResets ==
    /\ [][ind_op' = "update" /\ ind_ret'.err = "Calculation error" =>
             /\ ~IsInvalidPrice(ind_arg'[1])
             /\ ind_ret'.val = None
             /\ prices' = <<>> /\ gains' = <<>> /\ losses' = <<>>
             /\ ema_value' = R(0) /\ has_ema' = FALSE
             /\ Ind' = NewIndicators(period_rsi, period_ema)
             /\ hist' = <<>>]_vars
    /\ [](/\ ind_op = "current_rsi" =>
               (ind_ret.err = "Insufficient data for RSI calculation"
                   <=> Len(hist) < period_rsi + 1)
          /\ ind_op = "current_ema" =>
               (ind_ret.err # "none" <=> Len(hist) < period_ema))

\* C25 witness: an update has just failed with a numeric fault and the
\* object holds nothing
C25_Witness ==
    /\ ind_op = "update" /\ ind_ret.err = "Calculation error"
    /\ ind_arg # None /\ ~IsInvalidPrice(ind_arg[1])
    /\ prices = <<>> /\ ~has_ema

====
